---- MODULE Spec2Model ----
(***************************************************************************)
(* A model of the dockerhub-mirror tool: the mirror executor and scheduler *)
(* (scripts/mirror_sync.py), the version resolver (scripts/docker_hub_api  *)
(* .py) and the manifest update step (scripts/manifest_manager.py).        *)
(*                                                                         *)
(* Nine specifications share the module:                                   *)
(*   SpecExec     one call of MirrorSync.sync_single_version on a fresh    *)
(*                MirrorSync, the external calls answered by an oracle     *)
(*   Spec         MirrorSync.sync_from_manifest, serial and concurrent     *)
(*   SpecResolve  DockerHubAPI.get_all_matching_versions /                 *)
(*                get_latest_version over a bounded tag universe           *)
(*   SpecUpdate   ManifestManager.update_versions                          *)
(*   SpecBackoff  one call of sync_single_version that reaches mirror_image,*)
(*                for several retry_delay values and jitter draws          *)
(*   SpecCmd      cmd_sync under main (scripts/cli.py): the exit status    *)
(*   SpecRun      cmd_run: update_versions, then sync_from_manifest        *)
(*   SpecDerive   the derivation of the tasks in sync_from_manifest        *)
(*   SpecReport   generate_images_json on the tags listed for one entry    *)
(* SpecRunFair is SpecRun with its steps scheduled fairly, without         *)
(* --dry-run.                                                              *)
(***************************************************************************)
EXTENDS Integers, Sequences, FiniteSets, TLC

VARIABLES
    \* ---- MirrorSync object (mirror_sync.py:23-34)
    registry, owner, max_workers, max_retries, retry_delay,
    mirrored_images, success_count, fail_count, lock,
    \* ---- one direct call of sync_single_version (SpecExec)
    e_pc, e_task, e_env, e_jitter, e_ret, e_copies, e_lookups, e_delays,
    \* ---- sync_from_manifest (Spec)
    use_concurrency, sync_tasks, plan, m_pc, m_idx, t_pc, tmp, collected,
    \* ---- get_all_matching_versions / get_latest_version (SpecResolve)
    r_tags, tag_pattern, exclude_pattern, r_first, r_second,
    \* ---- ManifestManager and update_versions (SpecUpdate)
    manifest, manifest_file, loaded, api, dry_run, upd_concurrency,
    images_to_check, results, pending, u_pc, u_idx, updated_count, u_ret, saves,
    api_max_workers, resolving,
    \* ---- cmd_sync under main (SpecCmd)
    c_pc, manifest_exists, continue_on_error, report, exit_status,
    \* ---- the task derivation of sync_from_manifest (SpecDerive)
    d_pc, d_idx, d_images, d_tags, d_tasks, d_from, d_resolved,
    g_pc, g_tags, g_tag_pattern, g_exclude_pattern, filtered_tags, tags_sorted,
    g_latest

execVars == <<e_pc, e_task, e_env, e_jitter, e_ret, e_copies, e_lookups, e_delays>>
objVars == <<registry, owner, max_workers, max_retries, retry_delay,
             mirrored_images, success_count, fail_count, lock>>
schedVars == <<use_concurrency, sync_tasks, plan, m_pc, m_idx, t_pc, tmp, collected>>
resVars == <<r_tags, tag_pattern, exclude_pattern, r_first, r_second>>
updVars == <<manifest, manifest_file, loaded, api, dry_run, upd_concurrency,
             images_to_check, results, pending, u_pc, u_idx, updated_count, u_ret,
             saves, api_max_workers, resolving>>
cmdVars == <<c_pc, manifest_exists, continue_on_error, report, exit_status>>
deriveVars == <<d_pc, d_idx, d_images, d_tags, d_tasks, d_from, d_resolved>>
reportVars == <<g_pc, g_tags, g_tag_pattern, g_exclude_pattern, filtered_tags,
                tags_sorted, g_latest>>
\* What sync_from_manifest leaves alone, and what sync_single_version does
besideSched == <<execVars, resVars, updVars, cmdVars, deriveVars, reportVars>>
besideExec == <<schedVars, resVars, updVars, cmdVars, deriveVars, reportVars>>
vars == <<objVars, execVars, schedVars, resVars, updVars, cmdVars, deriveVars, reportVars>>

(***************************************************************************)
(* Bounds of the model.                                                    *)
(***************************************************************************)
MaxRetries == 3
MaxTasks == 3
MaxWorkers == 2
MaxTags == 4
MaxEntries == 2

\* exit_status before the process has exited
NoStatus == 0 - 1

Range(s) == {s[i] : i \in 1..Len(s)}

SeqsUpTo(S, n) == UNION {[1..k -> S] : k \in 0..n}

(***************************************************************************)
(* Image names are paths, one string per '/'-separated component.          *)
(***************************************************************************)
NginxImage == <<"library", "nginx">>
GhcrImage == <<"ghcr.io", "acme", "app">>

QuayImage == <<"quay.io", "acme", "app">>

ImageNames == {NginxImage, GhcrImage}

TaskPool ==
    {[image_name |-> NginxImage, version |-> "1.0", description |-> "web"],
     [image_name |-> GhcrImage, version |-> "2.0", description |-> "app"]}

\* The tasks a direct call of sync_single_version is given: those of the
\* pool, and one whose source lies in the registry quay.io
ExecTaskPool ==
    TaskPool \cup {[image_name |-> QuayImage, version |-> "2.0", description |-> "app"]}

\* image_name.replace('/', '__')
RECURSIVE RepoName(_)
RepoName(image_name) ==
    IF Len(image_name) = 0 THEN ""
    ELSE IF Len(image_name) = 1 THEN image_name[1]
    ELSE image_name[1] \o "__" \o RepoName(Tail(image_name))

\* f"{image_name}:{version}"
SourceImage(task) == [path |-> task.image_name, tag |-> task.version]

\* f"{self.registry}/{self.owner}/{repo_name}:{version}"
TargetImage(task, reg, own) ==
    [path |-> <<reg, own, RepoName(task.image_name)>>, tag |-> task.version]

\* source.startswith('ghcr.io/')
IsGhcrSource(source) == Len(source.path) > 1 /\ source.path[1] = "ghcr.io"

(***************************************************************************)
(* The external primitives, as the outcomes subprocess.run can have.       *)
(***************************************************************************)
DigestOutcomes ==
    {[kind |-> "exit", rc |-> 0, out |-> "sha256:a"],
     [kind |-> "exit", rc |-> 0, out |-> "sha256:b"],
     [kind |-> "exit", rc |-> 0, out |-> ""],
     [kind |-> "exit", rc |-> 1, out |-> ""],
     [kind |-> "timeout", rc |-> 1, out |-> ""],
     [kind |-> "exception", rc |-> 1, out |-> ""]}

CopyOk == [kind |-> "exit", rc |-> 0, stderr |-> ""]
CopyRateLimit == [kind |-> "exit", rc |-> 1, stderr |-> "toomanyrequests: rate limit exceeded"]
CopyTooMany == [kind |-> "exit", rc |-> 1, stderr |-> "TOOMANYREQUESTS"]
CopyError == [kind |-> "exit", rc |-> 1, stderr |-> "manifest unknown"]
CopyTimeout == [kind |-> "timeout", rc |-> 1, stderr |-> ""]
CopyException == [kind |-> "exception", rc |-> 1, stderr |-> ""]

CopyOutcomes == {CopyOk, CopyRateLimit, CopyTooMany, CopyError, CopyTimeout, CopyException}

CopyFailed(o) == ~(o.kind = "exit" /\ o.rc = 0)

\* 'rate limit exceeded' in stderr.lower() or 'TOOMANYREQUESTS' in stderr
IsRateLimit(stderr) ==
    stderr \in {"toomanyrequests: rate limit exceeded", "TOOMANYREQUESTS"}

\* Where a print of sync_single_version may raise (an unexpected exception).
RaisePoints == {"none", "pre", "post"}

\* What the environment answers during one call of sync_single_version.
Envs(retries) ==
    [src : DigestOutcomes, tgt : DigestOutcomes,
     copy : [1..retries -> CopyOutcomes], raise : RaisePoints]

NoDigest == "None"

\* _get_image_digest: the stripped stdout on exit code 0, None otherwise
GetImageDigest(o) ==
    IF o.kind = "exit"
    THEN IF o.rc = 0 THEN o.out ELSE NoDigest
    ELSE NoDigest

\* The mutant of Falsy: only None counts as a failed lookup
FalsyNoneOnly(d) == d = NoDigest

\* Python's `not digest`: None and the empty string are falsy
Falsy(d) == d = NoDigest \/ d = ""

NeedsSyncAlways(env) == [need |-> TRUE, lookups |-> 2]

\* needs_sync: the answer and the number of digest lookups made
NeedsSync(env) ==
    LET source_digest == GetImageDigest(env.src)
        target_digest == GetImageDigest(env.tgt)
    IN  IF Falsy(source_digest) THEN [need |-> TRUE, lookups |-> 1]
        ELSE IF Falsy(target_digest) THEN [need |-> TRUE, lookups |-> 2]
        ELSE IF source_digest = target_digest THEN [need |-> FALSE, lookups |-> 2]
        ELSE [need |-> TRUE, lookups |-> 2]

\* Times are in tenths of a second.  retry_delay defaults to 2.0
DefaultRetryDelay == 20

\* What random.uniform(0, 1) can answer
Jitters == {0, 9}

RECURSIVE Pow2(_)
Pow2(n) == IF n <= 0 THEN 1 ELSE 2 * Pow2(n - 1)

\* self.retry_delay * (2 ** (attempt - 1)) + random.uniform(0, 1)
BackoffDelay(delay, attempt, jitter) == delay * Pow2(attempt - 1) + jitter[attempt]

\* The mutant of CopyLoop: a timeout of the copy primitive ends the loop
RECURSIVE CopyLoopTimeoutFatal(_, _, _, _, _, _, _)
CopyLoopTimeoutFatal(attempt, retries, delay, jitter, script, done, slept) ==
    IF attempt >= retries THEN [ok |-> FALSE, copies |-> done, delays |-> slept]
    ELSE IF attempt > 0 /\ BackoffDelay(delay, attempt, jitter) < 0
    THEN IF attempt < retries - 1
         THEN CopyLoopTimeoutFatal(attempt + 1, retries, delay, jitter, script, done,
                                   slept)
         ELSE [ok |-> FALSE, copies |-> done, delays |-> slept]
    ELSE LET o == script[attempt + 1]
             now == Append(done, o)
             waited == IF attempt > 0
                       THEN Append(slept, BackoffDelay(delay, attempt, jitter))
                       ELSE slept
         IN  IF o.kind = "exit" /\ o.rc = 0
             THEN [ok |-> TRUE, copies |-> now, delays |-> waited]
             ELSE IF \/ o.kind = "exit" /\ ~IsRateLimit(o.stderr)
                     \/ o.kind = "timeout"
                     \/ attempt >= retries - 1
             THEN [ok |-> FALSE, copies |-> now, delays |-> waited]
             ELSE CopyLoopTimeoutFatal(attempt + 1, retries, delay, jitter, script, now,
                                       waited)

\* The retry loop of mirror_image from `attempt` on (mirror_sync.py:121-180):
\* the result, the outcomes of the copy invocations made and the delays
\* slept.  time.sleep raises ValueError on a negative delay, inside the try.
RECURSIVE CopyLoop(_, _, _, _, _, _, _)
CopyLoop(attempt, retries, delay, jitter, script, done, slept) ==
    IF attempt >= retries THEN [ok |-> FALSE, copies |-> done, delays |-> slept]
    ELSE IF attempt > 0 /\ BackoffDelay(delay, attempt, jitter) < 0
    THEN IF attempt < retries - 1
         THEN CopyLoop(attempt + 1, retries, delay, jitter, script, done, slept)
         ELSE [ok |-> FALSE, copies |-> done, delays |-> slept]
    ELSE LET o == script[attempt + 1]
             now == Append(done, o)
             waited == IF attempt > 0
                       THEN Append(slept, BackoffDelay(delay, attempt, jitter))
                       ELSE slept
         IN  IF o.kind = "exit"
             THEN IF o.rc = 0 THEN [ok |-> TRUE, copies |-> now, delays |-> waited]
                  ELSE IF IsRateLimit(o.stderr)
                       THEN IF attempt < retries - 1
                            THEN CopyLoop(attempt + 1, retries, delay, jitter, script,
                                          now, waited)
                            ELSE [ok |-> FALSE, copies |-> now, delays |-> waited]
                       ELSE [ok |-> FALSE, copies |-> now, delays |-> waited]
             ELSE IF attempt < retries - 1
                  THEN CopyLoop(attempt + 1, retries, delay, jitter, script, now, waited)
                  ELSE [ok |-> FALSE, copies |-> now, delays |-> waited]

\* mirror_image
MirrorImage(env, retries, delay, jitter) ==
    LET ns == NeedsSync(env)
    IN  IF ~ns.need
        THEN [ok |-> TRUE, copies |-> <<>>, lookups |-> ns.lookups, delays |-> <<>>]
        ELSE LET r == CopyLoop(0, retries, delay, jitter, env.copy, <<>>, <<>>)
             IN  [ok |-> r.ok, copies |-> r.copies, lookups |-> ns.lookups,
                  delays |-> r.delays]

NoRecord == [name |-> <<>>, source |-> [path |-> <<>>, tag |-> ""],
             target |-> [path |-> <<>>, tag |-> ""], version |-> "",
             description |-> "", repository |-> ""]

SyncRecord(task, target) ==
    [name |-> task.image_name, source |-> SourceImage(task), target |-> target,
     version |-> task.version, description |-> task.description,
     repository |-> RepoName(task.image_name)]

\* The record sync_single_version appends: target == source for a GHCR source
SuccessRecord(task, reg, own) ==
    IF IsGhcrSource(SourceImage(task))
    THEN SyncRecord(task, SourceImage(task))
    ELSE SyncRecord(task, TargetImage(task, reg, own))

SyncBodyUncaught(task, reg, own, env, retries, delay, jitter) ==
    LET m == MirrorImage(env, retries, delay, jitter)
    IN  IF \E k \in 1..Len(m.copies) : m.copies[k].kind \in {"timeout", "exception"}
        THEN [kind |-> "raised", record |-> NoRecord, copies |-> m.copies,
              lookups |-> m.lookups, delays |-> m.delays]
        ELSE IF m.ok
        THEN [kind |-> "success", record |-> SuccessRecord(task, reg, own),
              copies |-> m.copies, lookups |-> m.lookups, delays |-> m.delays]
        ELSE [kind |-> "failure", record |-> NoRecord,
              copies |-> m.copies, lookups |-> m.lookups, delays |-> m.delays]

\* sync_single_version up to its locked section: what it is about to do to the
\* shared state ("success": append the record and count, "failure": count,
\* "raised": an exception leaves the function before either).
SyncBody(task, reg, own, env, retries, delay, jitter) ==
    LET source_image == SourceImage(task)
    IN  IF env.raise = "pre"
        THEN [kind |-> "raised", record |-> NoRecord, copies |-> <<>>, lookups |-> 0,
              delays |-> <<>>]
        ELSE IF IsGhcrSource(source_image)
        THEN [kind |-> "success", record |-> SuccessRecord(task, reg, own),
              copies |-> <<>>, lookups |-> 0, delays |-> <<>>]
        ELSE LET m == MirrorImage(env, retries, delay, jitter)
             IN  IF env.raise = "post"
                 THEN [kind |-> "raised", record |-> NoRecord,
                       copies |-> m.copies, lookups |-> m.lookups, delays |-> m.delays]
                 ELSE IF m.ok
                 THEN [kind |-> "success", record |-> SuccessRecord(task, reg, own),
                       copies |-> m.copies, lookups |-> m.lookups, delays |-> m.delays]
                 ELSE [kind |-> "failure", record |-> NoRecord,
                       copies |-> m.copies, lookups |-> m.lookups, delays |-> m.delays]

(***************************************************************************)
(* The version resolver (docker_hub_api.py).  A tag name is the sequence   *)
(* of its characters.                                                      *)
(***************************************************************************)
Tag_v1_0 ==
    <<"v", "1", ".", "0">>
Tag_v1_0_alpine ==
    <<"v", "1", ".", "0", "-", "a", "l", "p", "i", "n", "e">>
Tag_1_0 ==
    <<"1", ".", "0">>
Tag_v2_0 ==
    <<"v", "2", ".", "0">>
Tag_1_2_3 ==
    <<"1", ".", "2", ".", "3">>
Tag_v1_10_0 ==
    <<"v", "1", ".", "1", "0", ".", "0">>
Tag_1_2 ==
    <<"1", ".", "2">>
Tag_latest ==
    <<"l", "a", "t", "e", "s", "t">>
Tag_0_0_0 ==
    <<"0", ".", "0", ".", "0">>
Tag_RELEASE_2024 ==
    <<"R", "E", "L", "E", "A", "S", "E", ".", "2", "0", "2", "4", "-", "0", "1", "-", "0", "1", "T", "0", "0", "-", "0", "0", "-", "0", "0", "Z">>
Tag_RELEASE_2025 ==
    <<"R", "E", "L", "E", "A", "S", "E", ".", "2", "0", "2", "5", "-", "1", "0", "-", "1", "5", "T", "1", "7", "-", "2", "9", "-", "5", "5", "Z">>
Tag_RELEASE_2024_12 ==
    <<"R", "E", "L", "E", "A", "S", "E", ".", "2", "0", "2", "4", "-", "1", "2", "-", "3", "1", "T", "2", "3", "-", "5", "9", "-", "5", "9", "Z">>

TagUniverse ==
    {Tag_v1_0, Tag_v1_0_alpine, Tag_1_0, Tag_v2_0, Tag_1_2_3, Tag_v1_10_0, Tag_1_2, Tag_latest, Tag_0_0_0, Tag_RELEASE_2024, Tag_RELEASE_2025,
     Tag_RELEASE_2024_12}

Digits == <<"0", "1", "2", "3", "4", "5", "6", "7", "8", "9">>

IsDigit(c) == \E d \in 1..Len(Digits) : Digits[d] = c

DigitVal(c) == (CHOOSE d \in 1..Len(Digits) : Digits[d] = c) - 1

\* str.startswith
StartsWith(s, prefix) ==
    /\ Len(s) >= Len(prefix)
    /\ SubSeq(s, 1, Len(prefix)) = prefix

\* str.split(sep) for a one-character separator: never an empty list
RECURSIVE SplitOn(_, _)
SplitOn(s, sep) ==
    IF \A i \in 1..Len(s) : s[i] # sep THEN <<s>>
    ELSE LET i == CHOOSE k \in 1..Len(s) :
                      s[k] = sep /\ \A j \in 1..(k - 1) : s[j] # sep
         IN  <<SubSeq(s, 1, i - 1)>> \o SplitOn(SubSeq(s, i + 1, Len(s)), sep)

RECURSIVE DigitsValue(_)
DigitsValue(ds) ==
    IF Len(ds) = 0 THEN 0
    ELSE 10 * DigitsValue(SubSeq(ds, 1, Len(ds) - 1)) + DigitVal(ds[Len(ds)])

\* int(part) for the characters a tag can hold: digits, single underscores
\* between them allowed; anything else is a ValueError
IsInt(part) ==
    /\ Len(part) > 0
    /\ \A i \in 1..Len(part) : IsDigit(part[i]) \/ part[i] = "_"
    /\ IsDigit(part[1])
    /\ IsDigit(part[Len(part)])
    /\ \A i \in 1..(Len(part) - 1) : ~(part[i] = "_" /\ part[i + 1] = "_")

\* try: int(part) except ValueError: 0
IntOrZero(part) ==
    IF IsInt(part) THEN DigitsValue(SelectSeq(part, IsDigit)) ELSE 0

\* Whether r'(\d{4})-(\d{2})-(\d{2})' matches s at position i
DateAt(s, i) ==
    /\ i + 9 <= Len(s)
    /\ \A k \in {0, 1, 2, 3, 5, 6, 8, 9} : IsDigit(s[i + k])
    /\ s[i + 4] = "-"
    /\ s[i + 7] = "-"

HasDate(s) == \E i \in 1..Len(s) : DateAt(s, i)

\* re.search(r'(\d{4})-(\d{2})-(\d{2})', s).groups() as integers: the leftmost match
DateOf(s) ==
    LET i == CHOOSE k \in 1..Len(s) : DateAt(s, k) /\ \A j \in 1..(k - 1) : ~DateAt(s, j)
    IN  <<DigitsValue(SubSeq(s, i, i + 3)), DigitsValue(SubSeq(s, i + 5, i + 6)),
          DigitsValue(SubSeq(s, i + 8, i + 9))>>

ReleasePrefix ==
    <<"R", "E", "L", "E", "A", "S", "E", ".">>

\* parts, padded with 0 to three and cut to three
PadCut(parts) ==
    [k \in 1..3 |-> IF k <= Len(parts) THEN parts[k] ELSE 0]

VersionKeyNoRelease(version_str) ==
    IF Len(version_str) = 0 THEN <<0, 0, 0>>
    ELSE LET stripped == IF version_str[1] = "v" THEN Tail(version_str)
                         ELSE version_str
             version_parts == SplitOn(stripped, "-")[1]
             comps == SplitOn(version_parts, ".")
         IN  PadCut([k \in 1..Len(comps) |-> IntOrZero(comps[k])])

VersionKeyUnstripped(version_str) ==
    IF Len(version_str) = 0 THEN <<0, 0, 0>>
    ELSE IF StartsWith(version_str, ReleasePrefix) /\ HasDate(version_str)
    THEN DateOf(version_str)
    ELSE LET comps == SplitOn(SplitOn(version_str, "-")[1], ".")
         IN  PadCut([k \in 1..Len(comps) |-> IntOrZero(comps[k])])

\* DockerHubAPI.version_key
VersionKey(version_str) ==
    IF Len(version_str) = 0 THEN <<0, 0, 0>>
    ELSE IF StartsWith(version_str, ReleasePrefix) /\ HasDate(version_str)
    THEN DateOf(version_str)
    ELSE LET stripped == IF version_str[1] = "v" THEN Tail(version_str)
                         ELSE version_str
             version_parts == SplitOn(stripped, "-")[1]
             comps == SplitOn(version_parts, ".")
         IN  PadCut([k \in 1..Len(comps) |-> IntOrZero(comps[k])])

\* Python's tuple comparison on keys of length three
KeyLess(a, b) ==
    \/ a[1] < b[1]
    \/ a[1] = b[1] /\ a[2] < b[2]
    \/ a[1] = b[1] /\ a[2] = b[2] /\ a[3] < b[3]

KeyLeq(a, b) == a = b \/ KeyLess(a, b)

(***************************************************************************)
(* Regular expressions, as sequences of tokens: "bol" is ^, "lit" is one   *)
(* literal character, "digit" is \d, "anystar" is a dot followed by a star *)
(***************************************************************************)
Lit(c) == [t |-> "lit", c |-> c]
Bol == [t |-> "bol", c |-> ""]
Digit == [t |-> "digit", c |-> ""]
AnyStar == [t |-> "anystar", c |-> ""]

\* '^v\d'
Pattern_v_digit == <<Bol, Lit("v"), Digit>>
\* '.*'
Pattern_any == <<AnyStar>>
\* 'alpine'
Pattern_alpine == <<Lit("a"), Lit("l"), Lit("p"), Lit("i"), Lit("n"), Lit("e")>>
\* None: no exclude_pattern
NoPattern == <<[t |-> "none", c |-> ""]>>

TagPatterns == {Pattern_v_digit, Pattern_any}
ExcludePatterns == {NoPattern, Pattern_alpine}

\* Whether pat[i..] matches s from position j on
RECURSIVE MatchHere(_, _, _, _)
MatchHere(pat, i, s, j) ==
    IF i > Len(pat) THEN TRUE
    ELSE LET tok == pat[i]
         IN  CASE tok.t = "bol" -> j = 1 /\ MatchHere(pat, i + 1, s, j)
               [] tok.t = "lit" ->
                      j <= Len(s) /\ s[j] = tok.c /\ MatchHere(pat, i + 1, s, j + 1)
               [] tok.t = "digit" ->
                      j <= Len(s) /\ IsDigit(s[j]) /\ MatchHere(pat, i + 1, s, j + 1)
               [] tok.t = "anystar" ->
                      \E k \in j..(Len(s) + 1) : MatchHere(pat, i + 1, s, k)
               [] OTHER -> FALSE

\* re.match: a match that starts at the first character
ReMatch(pat, s) == MatchHere(pat, 1, s, 1)

\* re.search: a match that starts anywhere
ReSearch(pat, s) == \E j \in 1..(Len(s) + 1) : MatchHere(pat, 1, s, j)

\* The filter of get_all_matching_versions (docker_hub_api.py:111-119)
Keeps(tag_name, tp, ep) ==
    /\ ReMatch(tp, tag_name)
    /\ ~(ep # NoPattern /\ ReMatch(ep, tag_name))

\* The filter's verdict on every tag of the universe, computed once
KeptTags ==
    [tp \in TagPatterns, ep \in ExcludePatterns |->
        {tg \in TagUniverse : Keeps(tg, tp, ep)}]

\* version_key of every tag of the universe, computed once
KeyOf == [tg \in TagUniverse |-> VersionKey(tg)]

\* The tag source: the response to each page request
OkPage(page_results, next) ==
    [status |-> "ok", results |-> page_results, next |-> next]
ErrorPage == [status |-> "error", results |-> <<>>, next |-> FALSE]

max_pages == 5

\* The mutant of FetchLoop: a failed request ends the loop as a `break` does
RECURSIVE FetchLoopBreaks(_, _, _, _, _)
FetchLoopBreaks(feed, page, tp, ep, matching_tags) ==
    IF page > max_pages THEN [failed |-> FALSE, matching |-> matching_tags]
    ELSE LET data == IF page <= Len(feed) THEN feed[page] ELSE OkPage(<<>>, FALSE)
         IN  IF data.status = "error" \/ Len(data.results) = 0
             THEN [failed |-> FALSE, matching |-> matching_tags]
             ELSE LET kept == SelectSeq(data.results, LAMBDA tg : tg \in KeptTags[tp, ep])
                      now == matching_tags \o kept
                  IN  IF ~data.next THEN [failed |-> FALSE, matching |-> now]
                      ELSE FetchLoopBreaks(feed, page + 1, tp, ep, now)

\* The page loop (docker_hub_api.py:88-125) from `page` on.  A request
\* error, or a non-2xx status at raise_for_status, leaves the function
\* through an except branch, which returns [].
RECURSIVE FetchLoop(_, _, _, _, _)
FetchLoop(feed, page, tp, ep, matching_tags) ==
    IF page > max_pages THEN [failed |-> FALSE, matching |-> matching_tags]
    ELSE LET data == IF page <= Len(feed) THEN feed[page] ELSE OkPage(<<>>, FALSE)
         IN  IF data.status = "error" THEN [failed |-> TRUE, matching |-> <<>>]
             ELSE IF Len(data.results) = 0
             THEN [failed |-> FALSE, matching |-> matching_tags]
             ELSE LET kept == SelectSeq(data.results, LAMBDA tg : tg \in KeptTags[tp, ep])
                      now == matching_tags \o kept
                  IN  IF ~data.next THEN [failed |-> FALSE, matching |-> now]
                      ELSE FetchLoop(feed, page + 1, tp, ep, now)

\* list(set(...)): the elements once each, in an order the hash seed decides
RECURSIVE Perms(_)
Perms(S) ==
    IF S = {} THEN {<<>>}
    ELSE UNION {{<<x>> \o p : p \in Perms(S \ {x})} : x \in S}

\* One step of a stable sort: x goes after every element whose key is not greater
RECURSIVE InsertByKey(_, _)
InsertByKey(sorted, x) ==
    IF Len(sorted) = 0 THEN <<x>>
    ELSE IF KeyLess(KeyOf[x], KeyOf[sorted[Len(sorted)]])
    THEN Append(InsertByKey(SubSeq(sorted, 1, Len(sorted) - 1), x), sorted[Len(sorted)])
    ELSE Append(sorted, x)

\* list.sort(key=self.version_key): stable
RECURSIVE SortByKey(_)
SortByKey(tags) ==
    IF Len(tags) = 0 THEN <<>>
    ELSE InsertByKey(SortByKey(SubSeq(tags, 1, Len(tags) - 1)), tags[Len(tags)])

\* get_all_matching_versions after its page loop, `order` being the order
\* list(set(matching_tags)) came in (docker_hub_api.py:127-148)
GetAllMatchingVersions(fetched, order) ==
    IF fetched.failed THEN <<>>
    ELSE IF fetched.tags = {} THEN <<>>
    ELSE SortByKey(order)

NoneTag == <<>>

\* get_latest_version, from the list get_all_matching_versions returned
LatestOf(matching_tags) ==
    IF Len(matching_tags) = 0 THEN NoneTag ELSE matching_tags[Len(matching_tags)]

(***************************************************************************)
(* ManifestManager.update_versions (manifest_manager.py:64-169).  A source *)
(* is the sequence of its ':'-separated pieces, each piece a sequence of   *)
(* characters, as the tags are.                                            *)
(***************************************************************************)
Str_nginx == <<"n", "g", "i", "n", "x">>
Str_redis == <<"r", "e", "d", "i", "s">>
Str_localhost == <<"l", "o", "c", "a", "l", "h", "o", "s", "t">>
Str_5000_app == <<"5", "0", "0", "0", "/", "a", "p", "p">>

\* An entry of manifest['images']
Entry(source, enabled, tp, ep) ==
    [source |-> source, enabled |-> enabled, tag_pattern |-> tp, exclude_pattern |-> ep]

\* nginx:1.0 under two patterns, redis without a tag, a disabled entry, an
\* entry without tag_pattern, localhost:5000/app (a registry port, no tag),
\* and nginx:1.2 under a pattern its own tag does not match
EntryPool ==
    {Entry(<<Str_nginx, Tag_1_0>>, TRUE, Pattern_any, NoPattern),
     Entry(<<Str_nginx, Tag_1_0>>, TRUE, Pattern_v_digit, Pattern_alpine),
     Entry(<<Str_redis>>, TRUE, Pattern_any, NoPattern),
     Entry(<<Str_nginx, Tag_v2_0>>, FALSE, Pattern_any, NoPattern),
     Entry(<<Str_redis, Tag_1_0>>, TRUE, NoPattern, NoPattern),
     Entry(<<Str_localhost, Str_5000_app>>, TRUE, Pattern_any, NoPattern),
     Entry(<<Str_nginx, Tag_1_2>>, TRUE, Pattern_v_digit, NoPattern)}

\* What get_latest_version can answer: None or a tag
Answers == {NoneTag, Tag_1_0, Tag_1_2, Tag_v1_0, Tag_v2_0}

\* source.rsplit(':', 1) when the source has a ':', else the source and 'latest'
RSplit(source) ==
    IF Len(source) >= 2
    THEN [image_name |-> SubSeq(source, 1, Len(source) - 1),
          current_version |-> source[Len(source)]]
    ELSE [image_name |-> source, current_version |-> Tag_latest]

\* f"{image_name}:{latest_version}"
JoinSource(image_name, latest_version) == Append(image_name, latest_version)

\* The item appended to images_to_check for entry i
ItemOf(images, i) ==
    LET parts == RSplit(images[i].source)
    IN  [img |-> i,
         image_name |-> parts.image_name,
         current_version |-> parts.current_version,
         tag_pattern |-> images[i].tag_pattern,
         exclude_pattern |-> images[i].exclude_pattern]

\* The collecting loop, from entry i on: enabled entries that have a tag_pattern
RECURSIVE ImagesToCheck(_, _)
ImagesToCheck(images, i) ==
    IF i > Len(images) THEN <<>>
    ELSE (IF images[i].enabled /\ images[i].tag_pattern # NoPattern
          THEN <<ItemOf(images, i)>> ELSE <<>>) \o ImagesToCheck(images, i + 1)

\* (repository, tag_pattern, exclude_pattern), the unit api is asked about
QueryOf(item) == <<item.image_name, item.tag_pattern, item.exclude_pattern>>

Queries(images) == {QueryOf(item) : item \in Range(ImagesToCheck(images, 1))}

\* What get_latest_version can answer to the unit q: None, or a tag that
\* passes the unit's filter
AnswersTo(q) == {tg \in Answers : tg = NoneTag \/ tg \in KeptTags[q[2], q[3]]}

\* version_map.get(image_name): the dict comprehension keeps, for each
\* repository, the last of its results
VersionMap(res, image_name) ==
    LET at == {k \in 1..Len(res) : res[k].repo = image_name}
    IN  IF at = {} THEN NoneTag
        ELSE res[CHOOSE k \in at : \A j \in at : j <= k].version

\* `latest_version and latest_version != current_version`
HasNewVersion(item, latest_version) ==
    Len(latest_version) > 0 /\ latest_version # item.current_version

ApplyItemAlways(images, item, latest_version, dr) ==
    [images EXCEPT ![item.img].source = JoinSource(item.image_name, latest_version)]

\* item['img']['source'] = f"{image_name}:{latest_version}", unless dry_run
ApplyItem(images, item, latest_version, dr) ==
    IF ~dr
    THEN [images EXCEPT ![item.img].source = JoinSource(item.image_name, latest_version)]
    ELSE images

\* The mutant of ShouldSave: every call that is not a dry run saves
ShouldSaveUncounted(count, dr) == ~dr

\* `if updated_count > 0 and not dry_run:` (manifest_manager.py:166)
ShouldSave(count, dr) == count > 0 /\ ~dr

NoManifest == [images |-> <<>>, last_checked |-> "loaded"]

UpdIdle ==
    /\ manifest = NoManifest
    /\ manifest_file = NoManifest
    /\ loaded = NoManifest
    /\ api = <<>>
    /\ dry_run = FALSE
    /\ upd_concurrency = FALSE
    /\ images_to_check = <<>>
    /\ results = <<>>
    /\ pending = {}
    /\ u_pc = "idle"
    /\ u_idx = 0
    /\ updated_count = 0
    /\ u_ret = -1
    /\ saves = 0
    /\ api_max_workers = 1
    /\ resolving = {}

(***************************************************************************)
(* SpecExec: a fresh MirrorSync and one call of sync_single_version.       *)
(***************************************************************************)
Registries == {"ghcr.io", "quay.io"}

NoTask == [image_name |-> <<>>, version |-> "", description |-> ""]
NoEnv == [src |-> [kind |-> "exit", rc |-> 1, out |-> ""],
          tgt |-> [kind |-> "exit", rc |-> 1, out |-> ""], copy |-> <<>>, raise |-> "none"]

SchedIdle ==
    /\ use_concurrency = FALSE
    /\ sync_tasks = <<>>
    /\ plan = <<>>
    /\ m_pc = "idle"
    /\ m_idx = 0
    /\ t_pc = <<>>
    /\ tmp = <<>>
    /\ collected = {}

NotRun == [done |-> FALSE, error |-> FALSE, failed |-> FALSE, versions |-> <<>>,
           latest |-> NoneTag]

ResIdle ==
    /\ r_tags = {}
    /\ tag_pattern = NoPattern
    /\ exclude_pattern = NoPattern
    /\ r_first = NotRun
    /\ r_second = NotRun

\* sync_from_manifest is not deriving tasks
DeriveIdle ==
    /\ d_pc = "idle"
    /\ d_idx = 0
    /\ d_images = <<>>
    /\ d_tags = {}
    /\ d_tasks = <<>>
    /\ d_from = <<>>
    /\ d_resolved = <<>>

\* generate_images_json is not running
ReportIdle ==
    /\ g_pc = "idle"
    /\ g_tags = <<>>
    /\ g_tag_pattern = NoPattern
    /\ g_exclude_pattern = NoPattern
    /\ filtered_tags = <<>>
    /\ tags_sorted = <<>>
    /\ g_latest = NoneTag

\* No command is running: the methods are called directly
CmdIdle ==
    /\ c_pc = "idle"
    /\ manifest_exists = TRUE
    /\ continue_on_error = "absent"
    /\ report = "none"
    /\ exit_status = NoStatus

ExecIdle ==
    /\ e_pc = "idle"
    /\ e_task = NoTask
    /\ e_env = NoEnv
    /\ e_jitter = <<>>
    /\ e_ret = "none"
    /\ e_copies = <<>>
    /\ e_lookups = 0
    /\ e_delays = <<>>

\* MirrorSync.__init__
FreshCounters ==
    /\ mirrored_images = <<>>
    /\ success_count = 0
    /\ fail_count = 0
    /\ lock = {}

ExecInit ==
    /\ registry \in Registries
    /\ owner = "acme"
    /\ max_workers = 1
    /\ max_retries \in 0..MaxRetries
    /\ retry_delay = DefaultRetryDelay
    /\ FreshCounters
    /\ DeriveIdle
    /\ ReportIdle
    /\ e_pc = "ready"
    /\ e_task \in ExecTaskPool
    /\ e_env \in Envs(max_retries)
    /\ e_jitter = [k \in 1..max_retries |-> 5]
    /\ e_ret = "none"
    /\ e_copies = <<>>
    /\ e_lookups = 0
    /\ e_delays = <<>>
    /\ SchedIdle
    /\ ResIdle
    /\ UpdIdle
    /\ CmdIdle

\* sync_single_version, called directly: no other thread contends for the lock
ExecCall ==
    /\ e_pc = "ready"
    /\ LET b == SyncBody(e_task, registry, owner, e_env, max_retries, retry_delay,
                         e_jitter)
       IN  /\ e_copies' = b.copies
           /\ e_delays' = b.delays
           /\ e_lookups' = b.lookups
           /\ e_ret' = CASE b.kind = "success" -> "True"
                         [] b.kind = "failure" -> "False"
                         [] OTHER -> "raised"
           /\ mirrored_images' = IF b.kind = "success"
                                 THEN Append(mirrored_images, b.record)
                                 ELSE mirrored_images
           /\ success_count' = IF b.kind = "success" THEN success_count + 1
                               ELSE success_count
           /\ fail_count' = IF b.kind = "failure" THEN fail_count + 1 ELSE fail_count
    /\ e_pc' = "returned"
    /\ UNCHANGED <<registry, owner, max_workers, max_retries, retry_delay,
                   lock, e_task, e_env,
                   e_jitter>>
    /\ UNCHANGED besideExec

ExecNext == ExecCall

SpecExec == ExecInit /\ [][ExecNext]_vars

(***************************************************************************)
(* Spec: sync_from_manifest over a list of sync tasks.  Thread 0 is the    *)
(* calling thread; task i runs in a pool worker (concurrent mode) or in    *)
(* the calling thread (serial mode).  plan[i] is what the external calls   *)
(* make of task i: one of the results SyncBody can have for it.            *)
(***************************************************************************)
DefaultRegistry == "ghcr.io"
DefaultOwner == "acme"

\* The results sync_single_version can have for each task, over every
\* answer of the environment.
BodyKinds ==
    [t \in TaskPool |->
        {SyncBody(t, DefaultRegistry, DefaultOwner, env, MaxRetries, DefaultRetryDelay,
                  [k \in 1..MaxRetries |-> 0]).kind :
            env \in Envs(MaxRetries)}]

Tasks == 1..Len(sync_tasks)

Running == {"body", "acquire", "append", "load", "store", "release"}
Finished == {"True", "False", "raised"}

\* The tasks a pool worker is executing
Executing == {i \in Tasks : t_pc[i] \in Running}

Init ==
    /\ registry = DefaultRegistry
    /\ owner = DefaultOwner
    /\ max_workers \in 1..MaxWorkers
    /\ max_retries = MaxRetries
    /\ retry_delay = DefaultRetryDelay
    /\ FreshCounters
    /\ DeriveIdle
    /\ ReportIdle
    /\ ExecIdle
    /\ ResIdle
    /\ UpdIdle
    /\ CmdIdle
    /\ use_concurrency \in BOOLEAN
    /\ sync_tasks \in SeqsUpTo(TaskPool, MaxTasks)
    /\ plan \in [1..Len(sync_tasks) -> {"success", "failure", "raised"}]
    /\ \A i \in 1..Len(sync_tasks) : plan[i] \in BodyKinds[sync_tasks[i]]
    /\ m_pc = "start"
    /\ m_idx = 1
    /\ t_pc = [i \in 1..Len(sync_tasks) |-> "new"]
    /\ tmp = [i \in 0..Len(sync_tasks) |-> 0]
    /\ collected = {}

\* `if use_concurrency and sync_tasks:` (mirror_sync.py:302)
Dispatch ==
    /\ m_pc = "start"
    /\ m_pc' = IF use_concurrency /\ Len(sync_tasks) > 0 THEN "submit" ELSE "serial"
    /\ UNCHANGED <<objVars, besideSched, use_concurrency, sync_tasks, plan, m_idx,
                   t_pc, tmp, collected>>

\* executor.submit(...) for the next task (mirror_sync.py:309-323)
Submit ==
    /\ m_pc = "submit"
    /\ m_idx <= Len(sync_tasks)
    /\ t_pc' = [t_pc EXCEPT ![m_idx] = "queued"]
    /\ m_idx' = m_idx + 1
    /\ UNCHANGED <<objVars, besideSched, use_concurrency, sync_tasks, plan, m_pc,
                   tmp, collected>>

\* all tasks are submitted: the calling thread enters as_completed
SubmitDone ==
    /\ m_pc = "submit"
    /\ m_idx > Len(sync_tasks)
    /\ m_pc' = "collect"
    /\ UNCHANGED <<objVars, besideSched, use_concurrency, sync_tasks, plan, m_idx,
                   t_pc, tmp, collected>>

\* The mutant of MayStart: a queued task starts whether or not a worker is idle
MayStartUnbounded(i) ==
    IF m_pc = "serial"
    THEN i = m_idx /\ t_pc[i] = "new"
    ELSE /\ t_pc[i] = "queued"
         /\ \A j \in Tasks : j < i => t_pc[j] # "queued"

\* Whether task i may start now: in the pool, the oldest queued task when a
\* worker is idle; in the serial loop, the task the loop is at.
MayStart(i) ==
    IF m_pc = "serial"
    THEN i = m_idx /\ t_pc[i] = "new"
    ELSE /\ t_pc[i] = "queued"
         /\ \A j \in Tasks : j < i => t_pc[j] # "queued"
         /\ Cardinality(Executing) < max_workers

\* A pool worker (or the serial loop) calls sync_single_version(task i)
TaskStart(i) ==
    /\ MayStart(i)
    /\ t_pc' = [t_pc EXCEPT ![i] = "body"]
    /\ UNCHANGED <<objVars, besideSched, use_concurrency, sync_tasks, plan, m_pc,
                   m_idx, tmp, collected>>

\* sync_single_version(task i) up to its `with self._lock`, or to the
\* exception that leaves it (mirror_sync.py:189-231)
TaskBody(i) ==
    /\ t_pc[i] = "body"
    /\ t_pc' = [t_pc EXCEPT ![i] = IF plan[i] = "raised" THEN "raised" ELSE "acquire"]
    /\ UNCHANGED <<objVars, besideSched, use_concurrency, sync_tasks, plan, m_pc,
                   m_idx, tmp, collected>>

LockAlwaysFree(holders) == TRUE

\* threading.Lock.acquire: only when no thread holds the lock
LockFree(holders) == holders = {}

\* The mutant of Acquire: the thread goes on without waiting for the lock
AcquireUnguarded(th) ==
    /\ IF th = 0 THEN m_pc = "acquire" ELSE t_pc[th] = "acquire"
    /\ lock' = lock \cup {th}
    /\ IF th = 0
       THEN m_pc' = "load" /\ UNCHANGED t_pc
       ELSE /\ t_pc' = [t_pc EXCEPT ![th] = IF plan[th] = "success" THEN "append"
                                            ELSE "load"]
            /\ UNCHANGED m_pc
    /\ UNCHANGED <<registry, owner, max_workers, max_retries, retry_delay,
                   mirrored_images,
                   success_count, fail_count, besideSched, use_concurrency,
                   sync_tasks, plan, m_idx, tmp, collected>>

\* Thread th (0: the calling thread in the except branch) enters `with self._lock`
Acquire(th) ==
    /\ IF th = 0 THEN m_pc = "acquire" ELSE t_pc[th] = "acquire"
    /\ LockFree(lock)
    /\ lock' = lock \cup {th}
    /\ IF th = 0
       THEN m_pc' = "load" /\ UNCHANGED t_pc
       ELSE /\ t_pc' = [t_pc EXCEPT ![th] = IF plan[th] = "success" THEN "append"
                                            ELSE "load"]
            /\ UNCHANGED m_pc
    /\ UNCHANGED <<registry, owner, max_workers, max_retries, retry_delay,
                   mirrored_images,
                   success_count, fail_count, besideSched, use_concurrency,
                   sync_tasks, plan, m_idx, tmp, collected>>

\* self.mirrored_images.append({...}) (mirror_sync.py:202-210, 219-227)
AppendRecord(i) ==
    /\ t_pc[i] = "append"
    /\ mirrored_images' =
           Append(mirrored_images, SuccessRecord(sync_tasks[i], registry, owner))
    /\ t_pc' = [t_pc EXCEPT ![i] = "load"]
    /\ UNCHANGED <<registry, owner, max_workers, max_retries, retry_delay,
                   success_count,
                   fail_count, lock, besideSched, use_concurrency, sync_tasks, plan,
                   m_pc, m_idx, tmp, collected>>

\* `+= 1` reads the counter ...
Load(th) ==
    /\ IF th = 0 THEN m_pc = "load" ELSE t_pc[th] = "load"
    /\ tmp' = [tmp EXCEPT ![th] = IF th # 0 /\ plan[th] = "success"
                                  THEN success_count ELSE fail_count]
    /\ IF th = 0
       THEN m_pc' = "store" /\ UNCHANGED t_pc
       ELSE t_pc' = [t_pc EXCEPT ![th] = "store"] /\ UNCHANGED m_pc
    /\ UNCHANGED <<objVars, besideSched, use_concurrency, sync_tasks, plan, m_idx,
                   collected>>

StoreUnchanged(th) ==
    /\ IF th = 0 THEN m_pc = "store" ELSE t_pc[th] = "store"
    /\ IF th # 0 /\ plan[th] = "success"
       THEN success_count' = tmp[th] /\ UNCHANGED fail_count
       ELSE fail_count' = tmp[th] /\ UNCHANGED success_count
    /\ IF th = 0
       THEN m_pc' = "release" /\ UNCHANGED t_pc
       ELSE t_pc' = [t_pc EXCEPT ![th] = "release"] /\ UNCHANGED m_pc
    /\ UNCHANGED <<registry, owner, max_workers, max_retries, retry_delay,
                   mirrored_images,
                   lock, besideSched, use_concurrency, sync_tasks, plan, m_idx, tmp,
                   collected>>

\* ... and writes it back, one higher
Store(th) ==
    /\ IF th = 0 THEN m_pc = "store" ELSE t_pc[th] = "store"
    /\ IF th # 0 /\ plan[th] = "success"
       THEN success_count' = tmp[th] + 1 /\ UNCHANGED fail_count
       ELSE fail_count' = tmp[th] + 1 /\ UNCHANGED success_count
    /\ IF th = 0
       THEN m_pc' = "release" /\ UNCHANGED t_pc
       ELSE t_pc' = [t_pc EXCEPT ![th] = "release"] /\ UNCHANGED m_pc
    /\ UNCHANGED <<registry, owner, max_workers, max_retries, retry_delay,
                   mirrored_images,
                   lock, besideSched, use_concurrency, sync_tasks, plan, m_idx, tmp,
                   collected>>

\* The mutant of Release: the block is left with the lock still held
ReleaseKept(th) ==
    /\ IF th = 0 THEN m_pc = "release" ELSE t_pc[th] = "release"
    /\ IF th = 0
       THEN m_pc' = "collect" /\ UNCHANGED t_pc
       ELSE /\ t_pc' = [t_pc EXCEPT ![th] = IF plan[th] = "success" THEN "True"
                                            ELSE "False"]
            /\ UNCHANGED m_pc
    /\ UNCHANGED <<registry, owner, max_workers, max_retries, retry_delay,
                   mirrored_images, lock,
                   success_count, fail_count, besideSched, use_concurrency,
                   sync_tasks, plan, m_idx, tmp, collected>>

\* Leaving `with self._lock`; a task then returns True or False
Release(th) ==
    /\ IF th = 0 THEN m_pc = "release" ELSE t_pc[th] = "release"
    /\ lock' = lock \ {th}
    /\ IF th = 0
       THEN m_pc' = "collect" /\ UNCHANGED t_pc
       ELSE /\ t_pc' = [t_pc EXCEPT ![th] = IF plan[th] = "success" THEN "True"
                                            ELSE "False"]
            /\ UNCHANGED m_pc
    /\ UNCHANGED <<registry, owner, max_workers, max_retries, retry_delay,
                   mirrored_images,
                   success_count, fail_count, besideSched, use_concurrency,
                   sync_tasks, plan, m_idx, tmp, collected>>

CollectUncounted(i) ==
    /\ m_pc = "collect"
    /\ i \notin collected
    /\ t_pc[i] \in Finished
    /\ collected' = collected \cup {i}
    /\ UNCHANGED <<objVars, besideSched, use_concurrency, sync_tasks, plan, m_pc,
                   m_idx, t_pc, tmp>>

\* as_completed yields the future of a finished task; future.result() raises
\* what the task raised, and the except branch counts it (mirror_sync.py:326-336)
Collect(i) ==
    /\ m_pc = "collect"
    /\ i \notin collected
    /\ t_pc[i] \in Finished
    /\ collected' = collected \cup {i}
    /\ m_pc' = IF t_pc[i] = "raised" THEN "acquire" ELSE "collect"
    /\ UNCHANGED <<objVars, besideSched, use_concurrency, sync_tasks, plan, m_idx,
                   t_pc, tmp>>

\* every future was yielded: the pool shuts down and the summary is printed
CollectDone ==
    /\ m_pc = "collect"
    /\ collected = Tasks
    /\ m_pc' = "returned"
    /\ UNCHANGED <<objVars, besideSched, use_concurrency, sync_tasks, plan, m_idx,
                   t_pc, tmp, collected>>

\* The serial loop (mirror_sync.py:339-344): the call of task m_idx returned
SerialStep ==
    /\ m_pc = "serial"
    /\ m_idx <= Len(sync_tasks)
    /\ t_pc[m_idx] \in {"True", "False"}
    /\ m_idx' = m_idx + 1
    /\ UNCHANGED <<objVars, besideSched, use_concurrency, sync_tasks, plan, m_pc,
                   t_pc, tmp, collected>>

\* ... or raised: nothing in the loop catches it, so it leaves sync_from_manifest
SerialRaise ==
    /\ m_pc = "serial"
    /\ m_idx <= Len(sync_tasks)
    /\ t_pc[m_idx] = "raised"
    /\ m_pc' = "propagated"
    /\ UNCHANGED <<objVars, besideSched, use_concurrency, sync_tasks, plan, m_idx,
                   t_pc, tmp, collected>>

SerialDone ==
    /\ m_pc = "serial"
    /\ m_idx > Len(sync_tasks)
    /\ m_pc' = "returned"
    /\ UNCHANGED <<objVars, besideSched, use_concurrency, sync_tasks, plan, m_idx,
                   t_pc, tmp, collected>>

Next ==
    \/ Dispatch
    \/ Submit
    \/ SubmitDone
    \/ \E i \in Tasks : TaskStart(i)
    \/ \E i \in Tasks : TaskBody(i)
    \/ \E th \in 0..Len(sync_tasks) : Acquire(th)
    \/ \E i \in Tasks : AppendRecord(i)
    \/ \E th \in 0..Len(sync_tasks) : Load(th)
    \/ \E th \in 0..Len(sync_tasks) : Store(th)
    \/ \E th \in 0..Len(sync_tasks) : Release(th)
    \/ \E i \in Tasks : Collect(i)
    \/ CollectDone
    \/ SerialStep
    \/ SerialRaise
    \/ SerialDone

Spec == Init /\ [][Next]_vars

(***************************************************************************)
(* SpecResolve: two calls of get_latest_version for one repository, one    *)
(* tag_pattern and one exclude_pattern.  r_tags is the set of tag names    *)
(* the repository holds; each call is answered by a feed that lists them   *)
(* in some order, with or without a repetition, on one or two pages.       *)
(***************************************************************************)
RECURSIVE Enum(_)
Enum(S) ==
    IF S = {} THEN <<>>
    ELSE LET x == CHOOSE y \in S : TRUE IN <<x>> \o Enum(S \ {x})

Reverse(s) == [i \in 1..Len(s) |-> s[Len(s) + 1 - i]]

\* The listings of S: in two orders, and with one tag repeated
Listings(S) ==
    LET e == Enum(S)
    IN  {e, Reverse(e), IF Len(e) = 0 THEN e ELSE Append(e, e[1])}

\* The feeds that list S: on one page, on one page that announces an empty
\* second one, on two pages (neither empty), and with the first or the second
\* request failing
Feeds(S) ==
    UNION {LET half == Len(l) \div 2
           IN  {<<OkPage(l, FALSE)>>,
                <<OkPage(l, TRUE), OkPage(<<>>, FALSE)>>,
                IF half = 0 THEN <<OkPage(l, FALSE)>>
                ELSE <<OkPage(SubSeq(l, 1, half), TRUE),
                       OkPage(SubSeq(l, half + 1, Len(l)), FALSE)>>,
                <<ErrorPage>>,
                <<OkPage(l, TRUE), ErrorPage>>} : l \in Listings(S)}

ResInit ==
    /\ registry = DefaultRegistry
    /\ owner = DefaultOwner
    /\ max_workers = 1
    /\ max_retries = MaxRetries
    /\ retry_delay = DefaultRetryDelay
    /\ FreshCounters
    /\ DeriveIdle
    /\ ReportIdle
    /\ ExecIdle
    /\ SchedIdle
    /\ UpdIdle
    /\ CmdIdle
    /\ r_tags \in {S \in SUBSET TagUniverse : Cardinality(S) <= MaxTags}
    /\ tag_pattern \in TagPatterns
    /\ exclude_pattern \in ExcludePatterns
    /\ r_first = NotRun
    /\ r_second = NotRun

\* The tag source answers one of the requests the page loop makes, that of
\* `page` or a later one, with a request error or a non-2xx status
\* (session.get and raise_for_status, docker_hub_api.py:99-100)
RECURSIVE RequestFails(_, _)
RequestFails(feed, page) ==
    IF page > max_pages \/ page > Len(feed) THEN FALSE
    ELSE IF feed[page].status = "error" THEN TRUE
    ELSE IF Len(feed[page].results) = 0 \/ ~feed[page].next THEN FALSE
    ELSE RequestFails(feed, page + 1)

\* What the page loop can leave behind for the tags S: whether the tag
\* source failed a request, whether the loop was left through an except
\* branch, and the set of the tag names it kept
Fetched(S, tp, ep) ==
    {LET f == FetchLoop(feed, 1, tp, ep, <<>>)
     IN  [error |-> RequestFails(feed, 1), failed |-> f.failed,
          tags |-> Range(f.matching)] : feed \in Feeds(S)}

\* get_latest_version(repository, tag_pattern, exclude_pattern)
GetLatestVersion ==
    /\ ~r_second.done
    /\ \E fetched \in Fetched(r_tags, tag_pattern, exclude_pattern) :
         \E order \in Perms(fetched.tags) :
           LET matching_tags == GetAllMatchingVersions(fetched, order)
               run == [done |-> TRUE, error |-> fetched.error,
                       failed |-> fetched.failed,
                       versions |-> matching_tags,
                       latest |-> LatestOf(matching_tags)]
           IN  IF ~r_first.done
               THEN r_first' = run /\ UNCHANGED r_second
               ELSE r_second' = run /\ UNCHANGED r_first
    /\ UNCHANGED <<objVars, execVars, schedVars, updVars, cmdVars, deriveVars, reportVars, r_tags,
                   tag_pattern, exclude_pattern>>

ResNext == GetLatestVersion

SpecResolve == ResInit /\ [][ResNext]_vars

(***************************************************************************)
(* SpecReport: generate_images_json on one manifest entry, from the tags   *)
(* the registry lists for it to the latest_version it reports.  A listed   *)
(* tag is a record of its name and its created_at; created_at is a number, *)
(* 0 for a missing one (read as '' by the sort), and a greater number for  *)
(* a later ISO timestamp.                                                  *)
(***************************************************************************)
\* Most tags one listing holds
MaxListed == 3

\* The characters of tag names in code point order
CodePoints ==
    <<"-", ".", "0", "1", "2", "3", "4", "5", "6", "7", "8", "9",
      "A", "B", "C", "D", "E", "F", "G", "H", "I", "J", "K", "L", "M",
      "N", "O", "P", "Q", "R", "S", "T", "U", "V", "W", "X", "Y", "Z", "_",
      "a", "b", "c", "d", "e", "f", "g", "h", "i", "j", "k", "l", "m",
      "n", "o", "p", "q", "r", "s", "t", "u", "v", "w", "x", "y", "z">>

CodePoint(c) == CHOOSE i \in 1..Len(CodePoints) : CodePoints[i] = c

\* a < b as Python compares strings
LexLess(a, b) ==
    \/ Len(a) < Len(b) /\ SubSeq(b, 1, Len(a)) = a
    \/ \E i \in 1..Len(a) :
         /\ i <= Len(b)
         /\ SubSeq(a, 1, i - 1) = SubSeq(b, 1, i - 1)
         /\ CodePoint(a[i]) < CodePoint(b[i])

\* str.lower()
Lower(s) ==
    [i \in 1..Len(s) |->
        IF CodePoint(s[i]) >= CodePoint("A") /\ CodePoint(s[i]) <= CodePoint("Z")
        THEN CodePoints[CodePoint(s[i]) + (CodePoint("a") - CodePoint("A"))]
        ELSE s[i]]

\* Whether filter_tags_by_pattern keeps a tag name: tag_pattern, if given,
\* matches at the start (re.match) and exclude_pattern, if given, matches
\* nowhere (re.search)
ReportKeeps(tag_name, tp, ep) ==
    /\ tp # NoPattern => ReMatch(tp, tag_name)
    /\ ~(ep # NoPattern /\ ReSearch(ep, tag_name))

\* filter_tags_by_pattern(tags, tag_pattern, exclude_pattern)
FilterTagsByPattern(tags, tp, ep) ==
    SelectSeq(tags, LAMBDA tag : ReportKeeps(tag.name, tp, ep))

\* re.sub(r'^[vV]+', '', tag_name)
RECURSIVE CleanName(_)
CleanName(tag_name) ==
    IF tag_name # <<>> /\ tag_name[1] \in {"v", "V"} THEN CleanName(Tail(tag_name))
    ELSE tag_name

\* The digits s starts with
RECURSIVE LeadingDigits(_)
LeadingDigits(s) ==
    IF s # <<>> /\ IsDigit(s[1]) THEN <<s[1]>> \o LeadingDigits(Tail(s))
    ELSE <<>>

\* The group of one (?:\.(\d+))? at the start of s: the digits it captures,
\* none when it matches the empty string
DotGroup(s) ==
    IF s # <<>> /\ s[1] = "." THEN LeadingDigits(Tail(s)) ELSE <<>>

NoTriple == <<>>

\* re.match(r'^(\d+)(?:\.(\d+))?(?:\.(\d+))?', clean_name) and its three
\* groups as integers, a group that did not take part counting as 0
VersionMatch(clean_name) ==
    LET g1 == LeadingDigits(clean_name)
        r1 == SubSeq(clean_name, Len(g1) + 1, Len(clean_name))
        g2 == DotGroup(r1)
        r2 == IF g2 = <<>> THEN r1 ELSE SubSeq(r1, Len(g2) + 2, Len(r1))
        g3 == DotGroup(r2)
    IN  IF g1 = <<>> THEN NoTriple
        ELSE <<DigitsValue(g1), DigitsValue(g2), DigitsValue(g3)>>

\* version_key of sort_tags_by_version: (0, 0, 0, 0, created_at) for
\* 'latest', (1, major, minor, patch, created_at) for a name that starts
\* with a number, (2, tag_name, created_at) for any other
ReportVersionKey(tag) ==
    IF Lower(tag.name) = Tag_latest
    THEN [class |-> 0, nums |-> <<0, 0, 0>>, name |-> <<>>, created_at |-> tag.created_at]
    ELSE IF VersionMatch(CleanName(tag.name)) # NoTriple
    THEN [class |-> 1, nums |-> VersionMatch(CleanName(tag.name)), name |-> <<>>,
          created_at |-> tag.created_at]
    ELSE [class |-> 2, nums |-> <<>>, name |-> tag.name, created_at |-> tag.created_at]

\* a < b for two such tuples
ReportKeyLess(a, b) ==
    \/ a.class < b.class
    \/ /\ a.class = b.class
       /\ a.class \in {0, 1}
       /\ \/ KeyLess(a.nums, b.nums)
          \/ a.nums = b.nums /\ a.created_at < b.created_at
    \/ /\ a.class = b.class
       /\ a.class = 2
       /\ \/ LexLess(a.name, b.name)
          \/ a.name = b.name /\ a.created_at < b.created_at

\* One more tag placed in a list sorted in descending order, after the
\* tags whose key is not less than its own
InsertDescending(sorted, tag) ==
    LET ahead == Cardinality({i \in 1..Len(sorted) :
                     ~ReportKeyLess(ReportVersionKey(sorted[i]), ReportVersionKey(tag))})
    IN  SubSeq(sorted, 1, ahead) \o <<tag>> \o SubSeq(sorted, ahead + 1, Len(sorted))

\* sorted(tags, key=version_key, reverse=True), a stable sort
RECURSIVE SortTagsByVersion(_)
SortTagsByVersion(tags) ==
    IF tags = <<>> THEN <<>>
    ELSE InsertDescending(SortTagsByVersion(SubSeq(tags, 1, Len(tags) - 1)), tags[Len(tags)])

\* The tags a registry can list: each name once, with or without created_at
ListedNames ==
    {Tag_1_0, Tag_v1_0, Tag_1_2_3, Tag_v1_10_0, Tag_v1_0_alpine, Tag_latest,
     Tag_RELEASE_2024, Tag_RELEASE_2025}

ListedTags == [name : ListedNames, created_at : 0..1]

ReportListings ==
    {l \in SeqsUpTo(ListedTags, MaxListed) :
        \A i, j \in 1..Len(l) : i # j => l[i].name # l[j].name}

ReportInit ==
    /\ registry = DefaultRegistry
    /\ owner = DefaultOwner
    /\ max_workers = 1
    /\ max_retries = MaxRetries
    /\ retry_delay = DefaultRetryDelay
    /\ FreshCounters
    /\ ExecIdle
    /\ SchedIdle
    /\ ResIdle
    /\ UpdIdle
    /\ CmdIdle
    /\ DeriveIdle
    /\ g_pc = "listed"
    /\ g_tags \in ReportListings
    /\ g_tag_pattern \in {NoPattern, Pattern_v_digit}
    /\ g_exclude_pattern \in ExcludePatterns
    /\ filtered_tags = <<>>
    /\ tags_sorted = <<>>
    /\ g_latest = NoneTag

besideReport == <<objVars, execVars, schedVars, resVars, updVars, cmdVars, deriveVars>>

\* `if tags:` fails: the entry gets no record
ReportNoTags ==
    /\ g_pc = "listed"
    /\ g_tags = <<>>
    /\ g_pc' = "done"
    /\ UNCHANGED <<besideReport, g_tags, g_tag_pattern, g_exclude_pattern, filtered_tags,
                   tags_sorted, g_latest>>

ReportFilter ==
    /\ g_pc = "listed"
    /\ g_tags # <<>>
    /\ filtered_tags' = FilterTagsByPattern(g_tags, g_tag_pattern, g_exclude_pattern)
    /\ g_pc' = "filtered"
    /\ UNCHANGED <<besideReport, g_tags, g_tag_pattern, g_exclude_pattern, tags_sorted,
                   g_latest>>

ReportSort ==
    /\ g_pc = "filtered"
    /\ tags_sorted' = SortTagsByVersion(filtered_tags)
    /\ g_pc' = "sorted"
    /\ UNCHANGED <<besideReport, g_tags, g_tag_pattern, g_exclude_pattern, filtered_tags,
                   g_latest>>

\* 'latest_version': versions[0]['version'] if versions else None
ReportCollect ==
    /\ g_pc = "sorted"
    /\ g_latest' = IF tags_sorted # <<>> THEN tags_sorted[1].name ELSE NoneTag
    /\ g_pc' = "done"
    /\ UNCHANGED <<besideReport, g_tags, g_tag_pattern, g_exclude_pattern, filtered_tags,
                   tags_sorted>>

ReportNext == ReportNoTags \/ ReportFilter \/ ReportSort \/ ReportCollect

SpecReport == ReportInit /\ [][ReportNext]_vars

(***************************************************************************)
(* SpecUpdate: one call of update_versions on a ManifestManager that has   *)
(* just loaded its file.  api maps each unit to the answer of              *)
(* get_latest_version for it.                                              *)
(***************************************************************************)
besideUpd == <<objVars, execVars, schedVars, resVars, cmdVars, deriveVars, reportVars>>

UpdInit ==
    /\ registry = DefaultRegistry
    /\ owner = DefaultOwner
    /\ max_workers = 1
    /\ max_retries = MaxRetries
    /\ retry_delay = DefaultRetryDelay
    /\ FreshCounters
    /\ DeriveIdle
    /\ ReportIdle
    /\ ExecIdle
    /\ SchedIdle
    /\ ResIdle
    /\ CmdIdle
    /\ manifest \in {[images |-> images, last_checked |-> "loaded"] :
                        images \in SeqsUpTo(EntryPool, MaxEntries)}
    /\ manifest_file = manifest
    /\ loaded = manifest
    /\ api \in [Queries(manifest.images) -> Answers]
    /\ \A q \in Queries(manifest.images) : api[q] \in AnswersTo(q)
    /\ dry_run \in BOOLEAN
    /\ upd_concurrency \in BOOLEAN
    /\ images_to_check = <<>>
    /\ results = <<>>
    /\ pending = {}
    /\ u_pc = "called"
    /\ u_idx = 0
    /\ updated_count = 0
    /\ u_ret = -1
    /\ saves = 0
    /\ api_max_workers \in 1..MaxWorkers
    /\ resolving = {}

\* Lines 75-109: collect the entries to check; in concurrent mode with
\* something to check, hand one unit per item to get_latest_versions_batch
UpdCollect ==
    /\ u_pc = "called"
    /\ LET items == ImagesToCheck(manifest.images, 1)
       IN  /\ images_to_check' = items
           /\ IF upd_concurrency /\ Len(items) > 0
              THEN u_pc' = "batch" /\ pending' = 1..Len(items)
              ELSE u_pc' = "serial" /\ pending' = {}
    /\ u_idx' = 1
    /\ UNCHANGED <<manifest, manifest_file, loaded, api, dry_run, upd_concurrency,
                   results, updated_count, u_ret, saves, api_max_workers,
                   resolving>>
    /\ UNCHANGED besideUpd

\* Whether a worker of the batch's pool may take unit i now: the oldest
\* unit no worker has taken, when a worker is idle.  The pool is
\* ThreadPoolExecutor(max_workers=self.max_workers) of the DockerHubAPI
MayResolve(i) ==
    /\ i \in pending \ resolving
    /\ \A j \in pending \ resolving : i <= j
    /\ Cardinality(resolving) < api_max_workers

\* A pool worker calls get_latest_version for unit i
UpdStart(i) ==
    /\ u_pc = "batch"
    /\ MayResolve(i)
    /\ resolving' = resolving \cup {i}
    /\ UNCHANGED <<manifest, manifest_file, loaded, api, dry_run, upd_concurrency,
                   images_to_check, results, pending, u_pc, u_idx, updated_count,
                   u_ret, saves, api_max_workers>>
    /\ UNCHANGED besideUpd

\* get_latest_versions_batch: the future of unit i completes and as_completed
\* hands it over; its (repo, latest_version) is appended to results
UpdComplete(i) ==
    /\ u_pc = "batch"
    /\ i \in resolving
    /\ results' = Append(results, [repo |-> images_to_check[i].image_name,
                                   version |-> api[QueryOf(images_to_check[i])]])
    /\ pending' = pending \ {i}
    /\ resolving' = resolving \ {i}
    /\ UNCHANGED <<manifest, manifest_file, loaded, api, dry_run, upd_concurrency,
                   images_to_check, u_pc, u_idx, updated_count, u_ret, saves,
                   api_max_workers>>
    /\ UNCHANGED besideUpd

\* The mutant of UpdJoin: the batch returns while units are outstanding
UpdJoinEarly ==
    /\ u_pc = "batch"
    /\ u_pc' = "apply"
    /\ UNCHANGED <<manifest, manifest_file, loaded, api, dry_run, upd_concurrency,
                   images_to_check, results, pending, u_idx, updated_count, u_ret,
                   saves, api_max_workers, resolving>>
    /\ UNCHANGED besideUpd

\* The batch returns once every future has been collected and the pool,
\* leaving its `with` block, has joined its workers
UpdJoin ==
    /\ u_pc = "batch"
    /\ pending = {}
    /\ resolving = {}
    /\ u_pc' = "apply"
    /\ UNCHANGED <<manifest, manifest_file, loaded, api, dry_run, upd_concurrency,
                   images_to_check, results, pending, u_idx, updated_count, u_ret,
                   saves, api_max_workers, resolving>>
    /\ UNCHANGED besideUpd

\* One turn of either item loop, latest_version being the winner it uses
UseVersion(latest_version) ==
    LET item == images_to_check[u_idx]
    IN  /\ IF HasNewVersion(item, latest_version)
           THEN /\ manifest' = [manifest EXCEPT !.images =
                                   ApplyItem(@, item, latest_version, dry_run)]
                /\ updated_count' = updated_count + 1
           ELSE UNCHANGED <<manifest, updated_count>>
        /\ u_idx' = u_idx + 1

\* Lines 120-138: the concurrent branch's loop over images_to_check
UpdApplyItem ==
    /\ u_pc = "apply"
    /\ u_idx <= Len(images_to_check)
    /\ UseVersion(VersionMap(results, images_to_check[u_idx].image_name))
    /\ UNCHANGED <<manifest_file, loaded, api, dry_run, upd_concurrency,
                   images_to_check, results, pending, u_pc, u_ret, saves,
                   api_max_workers, resolving>>
    /\ UNCHANGED besideUpd

\* Lines 141-163: the serial branch's loop, one get_latest_version per item
UpdSerialItem ==
    /\ u_pc = "serial"
    /\ u_idx <= Len(images_to_check)
    /\ UseVersion(api[QueryOf(images_to_check[u_idx])])
    /\ UNCHANGED <<manifest_file, loaded, api, dry_run, upd_concurrency,
                   images_to_check, results, pending, u_pc, u_ret, saves,
                   api_max_workers, resolving>>
    /\ UNCHANGED besideUpd

\* Lines 165-169: _save_manifest stamps last_checked and writes the manifest
\* out, then the count is returned
UpdReturn ==
    /\ u_pc \in {"apply", "serial"}
    /\ u_idx > Len(images_to_check)
    /\ IF ShouldSave(updated_count, dry_run)
       THEN /\ manifest' = [manifest EXCEPT !.last_checked = "saved"]
            /\ manifest_file' = manifest'
            /\ saves' = saves + 1
       ELSE UNCHANGED <<manifest, manifest_file, saves>>
    /\ u_ret' = updated_count
    /\ u_pc' = "returned"
    /\ UNCHANGED <<loaded, api, dry_run, upd_concurrency, images_to_check, results,
                   pending, u_idx, updated_count, api_max_workers, resolving>>
    /\ UNCHANGED besideUpd

UpdNext ==
    \/ UpdCollect
    \/ \E i \in 1..MaxEntries : UpdStart(i)
    \/ \E i \in 1..MaxEntries : UpdComplete(i)
    \/ UpdJoin
    \/ UpdApplyItem
    \/ UpdSerialItem
    \/ UpdReturn

SpecUpdate == UpdInit /\ [][UpdNext]_vars

(***************************************************************************)
(* SpecBackoff: one call of sync_single_version for a source outside GHCR, *)
(* under several retry_delay values (a negative one included: time.sleep   *)
(* then raises) and every draw of the jitter.                              *)
(***************************************************************************)
RetryDelays == {0 - 20, 5, 10, 20}

BackoffInit ==
    /\ registry = DefaultRegistry
    /\ owner = DefaultOwner
    /\ max_workers = 1
    /\ max_retries \in 0..MaxRetries
    /\ retry_delay \in RetryDelays
    /\ FreshCounters
    /\ DeriveIdle
    /\ ReportIdle
    /\ e_pc = "ready"
    /\ e_task \in {t \in TaskPool : ~IsGhcrSource(SourceImage(t))}
    /\ e_env \in {env \in Envs(max_retries) : env.raise = "none"}
    /\ e_jitter \in [1..(max_retries - 1) -> Jitters]
    /\ e_ret = "none"
    /\ e_copies = <<>>
    /\ e_lookups = 0
    /\ e_delays = <<>>
    /\ SchedIdle
    /\ ResIdle
    /\ UpdIdle
    /\ CmdIdle

BackoffNext == ExecCall

SpecBackoff == BackoffInit /\ [][BackoffNext]_vars

(***************************************************************************)
(* SpecCmd: cmd_sync run by main (scripts/cli.py), around the              *)
(* sync_from_manifest of Spec.  continue_on_error is the attribute of the  *)
(* parsed arguments: the sync subparser does not define it ("absent"), the *)
(* run subparser, whose cmd_run calls cmd_sync with its own arguments,     *)
(* does.  report is what the call of generate_images_json did.             *)
(***************************************************************************)
MaxCmdTasks == 2

CmdInit ==
    /\ registry = DefaultRegistry
    /\ owner = DefaultOwner
    /\ max_workers \in 1..MaxWorkers
    /\ max_retries = MaxRetries
    /\ retry_delay = DefaultRetryDelay
    /\ FreshCounters
    /\ DeriveIdle
    /\ ReportIdle
    /\ ExecIdle
    /\ ResIdle
    /\ UpdIdle
    /\ use_concurrency \in BOOLEAN
    /\ manifest_exists \in BOOLEAN
    /\ sync_tasks \in SeqsUpTo(TaskPool, IF manifest_exists THEN MaxCmdTasks ELSE 0)
    /\ plan \in [1..Len(sync_tasks) -> {"success", "failure", "raised"}]
    /\ \A i \in 1..Len(sync_tasks) : plan[i] \in BodyKinds[sync_tasks[i]]
    /\ m_pc = "start"
    /\ m_idx = 1
    /\ t_pc = [i \in 1..Len(sync_tasks) |-> "new"]
    /\ tmp = [i \in 0..Len(sync_tasks) |-> 0]
    /\ collected = {}
    /\ c_pc = "start"
    /\ continue_on_error \in {"absent", "False", "True"}
    /\ report = "none"
    /\ exit_status = NoStatus

\* main passes what the command returned to sys.exit (cli.py:325, main.py)
Exit(status) ==
    /\ c_pc' = "exited"
    /\ exit_status' = status

\* `return 0 if result['fail_count'] == 0 else 1` (cli.py:127)
FinalStatus == IF fail_count = 0 THEN 0 ELSE 1

\* `if not manifest_file.exists(): return 1` (cli.py:72-74)
CmdLoad ==
    /\ c_pc = "start"
    /\ IF manifest_exists
       THEN c_pc' = "syncing" /\ UNCHANGED exit_status
       ELSE Exit(1)
    /\ UNCHANGED <<objVars, execVars, schedVars, resVars, updVars, deriveVars, reportVars,
                   manifest_exists, continue_on_error, report>>

\* A step of sync.sync_from_manifest(...) (cli.py:97)
CmdSync ==
    /\ c_pc = "syncing"
    /\ Next

\* sync_from_manifest returned: `if result['fail_count'] == 0 or
\* args.continue_on_error:` (cli.py:107).  With a failed task the attribute
\* is read; where the subparser did not define it the read raises
\* AttributeError, which main turns into status 1 (cli.py:329-334).
CmdResult ==
    /\ c_pc = "syncing"
    /\ m_pc = "returned"
    /\ IF fail_count = 0 \/ continue_on_error = "True"
       THEN c_pc' = "generate" /\ UNCHANGED exit_status
       ELSE IF continue_on_error = "absent"
            THEN Exit(1)
            ELSE Exit(FinalStatus)
    /\ UNCHANGED <<objVars, execVars, schedVars, resVars, updVars, deriveVars, reportVars,
                   manifest_exists, continue_on_error, report>>

\* The mutant of CmdGenerate: a failed report is logged and nothing more
CmdGenerateTolerant ==
    /\ c_pc = "generate"
    /\ \E outcome \in {"ok", "raised"} :
        /\ report' = outcome
        /\ Exit(FinalStatus)
    /\ UNCHANGED <<objVars, execVars, schedVars, resVars, updVars, deriveVars, reportVars,
                   manifest_exists, continue_on_error>>

\* generate_images_json(...) in its try (cli.py:109-124): it returns, or it
\* raises and the handler reads args.continue_on_error: absent, the read
\* raises inside the handler and main returns 1; False, `return 1`; True,
\* the function goes on to its last line.
CmdGenerate ==
    /\ c_pc = "generate"
    /\ \E outcome \in {"ok", "raised"} :
        /\ report' = outcome
        /\ IF outcome = "ok" \/ continue_on_error = "True"
           THEN Exit(FinalStatus)
           ELSE Exit(1)
    /\ UNCHANGED <<objVars, execVars, schedVars, resVars, updVars, deriveVars, reportVars,
                   manifest_exists, continue_on_error>>

\* An exception left sync_from_manifest: `except Exception` of main
\* (cli.py:329-334)
CmdPropagated ==
    /\ c_pc = "syncing"
    /\ m_pc = "propagated"
    /\ Exit(1)
    /\ UNCHANGED <<objVars, execVars, schedVars, resVars, updVars, deriveVars, reportVars,
                   manifest_exists, continue_on_error, report>>

\* The user interrupts the run: `except KeyboardInterrupt` of main
\* (cli.py:326-328)
CmdInterrupt ==
    /\ c_pc \in {"start", "syncing", "generate"}
    /\ c_pc' = "interrupted"
    /\ exit_status' = 1
    /\ UNCHANGED <<objVars, execVars, schedVars, resVars, updVars, deriveVars, reportVars,
                   manifest_exists, continue_on_error, report>>

CmdNext ==
    \/ CmdLoad
    \/ CmdSync
    \/ CmdResult
    \/ CmdGenerate
    \/ CmdPropagated
    \/ CmdInterrupt

SpecCmd == CmdInit /\ [][CmdNext]_vars

(***************************************************************************)
(* SpecRun: cmd_run under main, the update step followed by the sync       *)
(* step.  cmd_update builds a ManifestManager on the manifest file and     *)
(* calls update_versions; cmd_sync then loads the file again and hands the *)
(* tasks to sync_from_manifest.  The two pools take their sizes from       *)
(* --max-workers and --max-workers-sync.  d_images is the manifest         *)
(* cmd_sync loaded; the outcomes of the tasks are drawn with the task list.*)
(***************************************************************************)
\* The manifest file of the run: as many checked entries as the bound allows
RunManifest ==
    [images |-> [i \in 1..MaxEntries |->
                    Entry(<<Str_redis>>, TRUE, Pattern_any, NoPattern)],
     last_checked |-> "loaded"]

\* The task lists of the run: up to MaxCmdTasks tasks for one image
RunTasks ==
    {[k \in 1..n |-> [image_name |-> NginxImage, version |-> "1.0",
                      description |-> "web"]] : n \in 0..MaxCmdTasks}

RunInit ==
    /\ registry = DefaultRegistry
    /\ owner = DefaultOwner
    /\ max_workers \in 1..MaxWorkers
    /\ max_retries = MaxRetries
    /\ retry_delay = DefaultRetryDelay
    /\ FreshCounters
    /\ DeriveIdle
    /\ ReportIdle
    /\ ExecIdle
    /\ ResIdle
    /\ manifest_exists \in BOOLEAN
    /\ manifest_file = IF manifest_exists THEN RunManifest ELSE NoManifest
    /\ manifest = NoManifest
    /\ loaded = NoManifest
    /\ api \in [Queries(manifest_file.images) -> {NoneTag, Tag_1_2}]
    /\ dry_run \in BOOLEAN
    /\ upd_concurrency \in BOOLEAN
    /\ images_to_check = <<>>
    /\ results = <<>>
    /\ pending = {}
    /\ u_pc = "idle"
    /\ u_idx = 0
    /\ updated_count = 0
    /\ u_ret = -1
    /\ saves = 0
    /\ api_max_workers \in 1..MaxWorkers
    /\ resolving = {}
    /\ use_concurrency \in BOOLEAN
    /\ sync_tasks \in IF manifest_exists THEN RunTasks ELSE {<<>>}
    /\ plan \in [1..Len(sync_tasks) -> {"success", "failure", "raised"}]
    /\ \A i \in 1..Len(sync_tasks) : plan[i] \in BodyKinds[sync_tasks[i]]
    /\ m_pc = "waiting"
    /\ m_idx = 1
    /\ t_pc = [i \in 1..Len(sync_tasks) |-> "new"]
    /\ tmp = [i \in 0..Len(sync_tasks) |-> 0]
    /\ collected = {}
    /\ c_pc = "run"
    /\ continue_on_error \in {"False", "True"}
    /\ report = "none"
    /\ exit_status = NoStatus

\* The mutant of RunUpdate: cmd_update goes on without its manifest file
RunUpdateUnchecked ==
    /\ c_pc = "run"
    /\ c_pc' = "updating"
    /\ u_pc' = "called"
    /\ manifest' = manifest_file
    /\ loaded' = manifest_file
    /\ UNCHANGED exit_status
    /\ UNCHANGED <<manifest_file, api, dry_run, upd_concurrency, images_to_check,
                   results, pending, u_idx, updated_count, u_ret, saves,
                   api_max_workers, resolving>>
    /\ UNCHANGED <<objVars, execVars, schedVars, resVars, deriveVars, reportVars,
                   manifest_exists, continue_on_error, report>>

\* `ret = cmd_update(args)` (cli.py:140) up to the call of update_versions:
\* without the manifest file cmd_update returns 1 (cli.py:36-38), and
\* cmd_run returns that unless --continue-on-error (cli.py:141-142); with
\* it, ManifestManager loads the file (manifest_manager.py:29-33)
RunUpdate ==
    /\ c_pc = "run"
    /\ IF manifest_exists
       THEN /\ c_pc' = "updating"
            /\ u_pc' = "called"
            /\ manifest' = manifest_file
            /\ loaded' = manifest_file
            /\ UNCHANGED exit_status
       ELSE /\ IF continue_on_error = "True"
               THEN c_pc' = "updated" /\ UNCHANGED exit_status
               ELSE Exit(1)
            /\ UNCHANGED <<u_pc, manifest, loaded>>
    /\ UNCHANGED <<manifest_file, api, dry_run, upd_concurrency, images_to_check,
                   results, pending, u_idx, updated_count, u_ret, saves,
                   api_max_workers, resolving>>
    /\ UNCHANGED <<objVars, execVars, schedVars, resVars, deriveVars, reportVars,
                   manifest_exists, continue_on_error, report>>

\* A step of manager.update_versions(...) (cli.py:47)
RunUpdating ==
    /\ c_pc = "updating"
    /\ UpdNext

\* The mutant of RunSync: cmd_sync is called while the update step runs
RunSyncEarly ==
    /\ c_pc \in {"updating", "updated"}
    /\ IF manifest_exists
       THEN /\ c_pc' = "syncing"
            /\ d_images' = manifest_file.images
            /\ m_pc' = "start"
            /\ UNCHANGED exit_status
       ELSE /\ Exit(1)
            /\ UNCHANGED <<d_images, m_pc>>
    /\ UNCHANGED <<d_pc, d_idx, d_tags, d_tasks, d_from, d_resolved>>
    /\ UNCHANGED <<objVars, execVars, resVars, updVars, reportVars, use_concurrency,
                   sync_tasks,
                   plan, m_idx, t_pc, tmp, collected, manifest_exists,
                   continue_on_error, report>>

\* `ret = cmd_sync(args)` (cli.py:159) up to the call of sync_from_manifest,
\* after cmd_update has returned: without the manifest file cmd_sync returns
\* 1 (cli.py:72-74); with it, the file is loaded (cli.py:77-78) and handed to
\* sync_from_manifest
RunSync ==
    /\ \/ c_pc = "updating" /\ u_pc = "returned"
       \/ c_pc = "updated"
    /\ IF manifest_exists
       THEN /\ c_pc' = "syncing"
            /\ d_images' = manifest_file.images
            /\ m_pc' = "start"
            /\ UNCHANGED exit_status
       ELSE /\ Exit(1)
            /\ UNCHANGED <<d_images, m_pc>>
    /\ UNCHANGED <<d_pc, d_idx, d_tags, d_tasks, d_from, d_resolved>>
    /\ UNCHANGED <<objVars, execVars, resVars, updVars, reportVars, use_concurrency,
                   sync_tasks,
                   plan, m_idx, t_pc, tmp, collected, manifest_exists,
                   continue_on_error, report>>

RunNext ==
    \/ RunUpdate
    \/ RunUpdating
    \/ RunSync
    \/ CmdSync
    \/ CmdResult
    \/ CmdGenerate
    \/ CmdPropagated

SpecRun == RunInit /\ [][RunNext]_vars

\* The run with its threads scheduled: a step that can be taken is taken in
\* the end.  Every step is a thread of the process at a statement that is
\* not waiting for anything, or a pool handing a unit to an idle worker.
\* The runs are those without --dry-run, a flag no loop or wait reads.
RunFairInit == RunInit /\ ~dry_run

SpecRunFair == RunFairInit /\ [][RunNext]_vars /\ WF_vars(RunNext)

(***************************************************************************)
(* SpecDerive: the first loop of sync_from_manifest (mirror_sync.py:       *)
(* 256-299), which derives sync_tasks from manifest['images'].  d_tags is  *)
(* the set of tags the tag source holds for the repositories; d_from[k] is *)
(* the entry task k was derived from and d_resolved[i] what                *)
(* get_all_matching_versions answered for entry i.                         *)
(***************************************************************************)
\* An entry of manifest['images'] as sync_from_manifest reads it
SyncEntry(source, enabled, sync_all, tp, ep) ==
    [source |-> source, enabled |-> enabled, sync_all_matching |-> sync_all,
     tag_pattern |-> tp, exclude_pattern |-> ep, description |-> "web"]

\* nginx:1.0 pinned, nginx without a tag, a disabled entry, two entries that
\* sync every matching tag, and localhost:5000/app:1.0 (a registry with a
\* port, pinned to 1.0)
SyncEntryPool ==
    {SyncEntry(<<Str_nginx, Tag_1_0>>, TRUE, FALSE, Pattern_any, NoPattern),
     SyncEntry(<<Str_nginx>>, TRUE, FALSE, Pattern_any, NoPattern),
     SyncEntry(<<Str_nginx, Tag_1_0>>, FALSE, TRUE, Pattern_any, NoPattern),
     SyncEntry(<<Str_nginx, Tag_1_0>>, TRUE, TRUE, Pattern_v_digit, Pattern_alpine),
     SyncEntry(<<Str_nginx, Tag_1_0>>, TRUE, TRUE, Pattern_any, NoPattern),
     SyncEntry(<<Str_localhost, Str_5000_app, Tag_1_0>>, TRUE, FALSE, Pattern_any, NoPattern)}

\* The tags the tag source may hold
DeriveTags == {Tag_v1_0, Tag_v1_0_alpine, Tag_1_0, Tag_v2_0}

\* get_all_matching_versions was not called for the entry
NotAsked == [asked |-> FALSE, error |-> FALSE, versions |-> <<>>]

\* source.split(':')[0]
SplitImageName(source) == source[1]

\* source.split(':')[1] if ':' in source else 'latest'
SplitCurrentVersion(source) == IF Len(source) >= 2 THEN source[2] ELSE Tag_latest

\* versions_to_sync of an enabled entry, all_versions being the answer of
\* get_all_matching_versions when sync_all_matching is set
VersionsToSync(img, all_versions) ==
    IF img.sync_all_matching THEN all_versions
    ELSE <<SplitCurrentVersion(img.source)>>

\* The tasks appended for an enabled entry
TasksOf(img, versions_to_sync) ==
    [k \in 1..Len(versions_to_sync) |->
        [image_name |-> SplitImageName(img.source),
         version |-> versions_to_sync[k],
         description |-> img.description]]

DeriveInit ==
    /\ registry = DefaultRegistry
    /\ owner = DefaultOwner
    /\ max_workers = 1
    /\ max_retries = MaxRetries
    /\ retry_delay = DefaultRetryDelay
    /\ FreshCounters
    /\ ExecIdle
    /\ SchedIdle
    /\ ResIdle
    /\ UpdIdle
    /\ CmdIdle
    /\ ReportIdle
    /\ d_pc = "derive"
    /\ d_idx = 1
    /\ d_images \in SeqsUpTo(SyncEntryPool, MaxEntries)
    /\ d_tags \in SUBSET DeriveTags
    /\ d_tasks = <<>>
    /\ d_from = <<>>
    /\ d_resolved = <<>>

\* One turn of `for img in manifest.get('images', [])` with the versions it
\* is to sync, and what the resolver answered
DeriveAppend(versions_to_sync, answer) ==
    /\ d_tasks' = d_tasks \o TasksOf(d_images[d_idx], versions_to_sync)
    /\ d_from' = d_from \o [k \in 1..Len(versions_to_sync) |-> d_idx]
    /\ d_resolved' = Append(d_resolved, answer)
    /\ d_idx' = d_idx + 1
    /\ UNCHANGED <<d_pc, d_images, d_tags>>
    /\ UNCHANGED <<objVars, execVars, schedVars, resVars, updVars, cmdVars, reportVars>>

\* `if not img.get('enabled', True): continue`
DeriveDisabled ==
    /\ d_pc = "derive"
    /\ d_idx <= Len(d_images)
    /\ ~d_images[d_idx].enabled
    /\ DeriveAppend(<<>>, NotAsked)

\* An enabled entry without sync_all_matching: its current version
DerivePinned ==
    /\ d_pc = "derive"
    /\ d_idx <= Len(d_images)
    /\ d_images[d_idx].enabled
    /\ ~d_images[d_idx].sync_all_matching
    /\ DeriveAppend(VersionsToSync(d_images[d_idx], <<>>), NotAsked)

\* An enabled entry with sync_all_matching: get_all_matching_versions is
\* called; an empty answer is the `continue` of line 286
DeriveAll ==
    /\ d_pc = "derive"
    /\ d_idx <= Len(d_images)
    /\ d_images[d_idx].enabled
    /\ d_images[d_idx].sync_all_matching
    /\ \E fetched \in Fetched(d_tags, d_images[d_idx].tag_pattern,
                              d_images[d_idx].exclude_pattern) :
         \E order \in Perms(fetched.tags) :
           LET all_versions == GetAllMatchingVersions(fetched, order)
           IN  DeriveAppend(VersionsToSync(d_images[d_idx], all_versions),
                            [asked |-> TRUE, error |-> fetched.error,
                             versions |-> all_versions])

\* The loop has visited every entry
DeriveDone ==
    /\ d_pc = "derive"
    /\ d_idx > Len(d_images)
    /\ d_pc' = "derived"
    /\ UNCHANGED <<d_idx, d_images, d_tags, d_tasks, d_from, d_resolved>>
    /\ UNCHANGED <<objVars, execVars, schedVars, resVars, updVars, cmdVars, reportVars>>

DeriveNext ==
    \/ DeriveDisabled
    \/ DerivePinned
    \/ DeriveAll
    \/ DeriveDone

SpecDerive == DeriveInit /\ [][DeriveNext]_vars

(***************************************************************************)
(* Claims about the mirror scheduler (Spec).                               *)
(***************************************************************************)
Planned(kind) == {i \in Tasks : plan[i] = kind}

RecordsOf(S) == {SuccessRecord(sync_tasks[i], registry, owner) : i \in S}

\* The aggregate as a function of the tasks and their outcomes alone: the
\* counts and the record set the serial loop produces when no task raises.
SerialAggregate ==
    [success_count |-> Cardinality(Planned("success")),
     fail_count |-> Cardinality(Planned("failure")),
     records |-> RecordsOf(Planned("success"))]

Aggregate ==
    [success_count |-> success_count, fail_count |-> fail_count,
     records |-> Range(mirrored_images)]

\* C1: with every task's outcome fixed to success or permanent failure, a
\* run of sync_from_manifest that has returned, serial or concurrent with
\* any number of workers and under any interleaving, holds the aggregate
\* (success_count, fail_count, set of SyncRecords) of the serial run, and
\* one record per success.
C1_ConcurrentEqualsSerial ==
    (m_pc = "returned" /\ Planned("raised") = {}) =>
        /\ Aggregate = SerialAggregate
        /\ Len(mirrored_images) = Cardinality(Planned("success"))

C1_Witness ==
    /\ m_pc = "returned"
    /\ use_concurrency
    /\ max_workers > 1
    /\ Len(sync_tasks) = MaxTasks
    /\ Planned("raised") = {}
    /\ success_count > 1
    /\ fail_count > 0

\* C2: in concurrent mode with exactly one raising task the exception never
\* leaves sync_from_manifest, and when the run has returned every other task
\* has returned True or False with its outcome counted and recorded, and
\* fail_count is the number of permanently failed tasks plus exactly one.
C2_OneRaiseIsolated ==
    (use_concurrency /\ Cardinality(Planned("raised")) = 1) =>
        /\ m_pc # "propagated"
        /\ m_pc = "returned" =>
              /\ \A i \in Tasks : t_pc[i] = (IF plan[i] = "success" THEN "True"
                                             ELSE IF plan[i] = "failure" THEN "False"
                                             ELSE "raised")
              /\ fail_count = Cardinality(Planned("failure")) + 1
              /\ success_count = Cardinality(Planned("success"))
              /\ Range(mirrored_images) = RecordsOf(Planned("success"))

C2_Witness ==
    /\ use_concurrency
    /\ m_pc = "returned"
    /\ Len(sync_tasks) = MaxTasks
    /\ Planned("raised") = {2}
    /\ Planned("failure") = {}
    /\ fail_count = 1
    /\ success_count = MaxTasks - 1

\* C3: in serial mode a raising task is counted as one failure, every task
\* after it is still executed, and the run is not aborted.
C3_SerialRaiseTolerated ==
    (~use_concurrency /\ Planned("raised") # {}) =>
        /\ m_pc # "propagated"
        /\ m_pc = "returned" =>
              /\ \A i \in Tasks : t_pc[i] \in Finished
              /\ fail_count = Cardinality(Planned("failure"))
                                + Cardinality(Planned("raised"))

(***************************************************************************)
(* Claims about the mirror executor (SpecExec).                            *)
(***************************************************************************)
\* The call reached mirror_image's retry loop: no exception before it, not a
\* GHCR source, and needs_sync answered that a copy is needed.
CopyNeeded ==
    /\ e_env.raise = "none"
    /\ ~IsGhcrSource(SourceImage(e_task))
    /\ NeedsSync(e_env).need

\* C4: when a copy is needed and the copy primitive fails on every
\* invocation, whatever the failure, the primitive is invoked exactly
\* max_retries times and the call then returns False.
C4_RetryBudgetExact ==
    (/\ e_pc = "returned"
     /\ CopyNeeded
     /\ \A k \in 1..max_retries : CopyFailed(e_env.copy[k])) =>
        /\ Len(e_copies) = max_retries
        /\ e_ret = "False"

\* C5: when both digest lookups succeed with equal digests (and no print
\* raises), sync_single_version returns True with no copy invocation, one
\* SyncRecord appended and success_count raised by one.
C5_IdempotentSkip ==
    (/\ e_pc = "returned"
     /\ e_env.raise = "none"
     /\ e_lookups = 2
     /\ ~Falsy(GetImageDigest(e_env.src))
     /\ GetImageDigest(e_env.src) = GetImageDigest(e_env.tgt)) =>
        /\ e_ret = "True"
        /\ e_copies = <<>>
        /\ mirrored_images = <<SuccessRecord(e_task, registry, owner)>>
        /\ success_count = 1
        /\ fail_count = 0

C5_Witness ==
    /\ e_pc = "returned"
    /\ e_env.raise = "none"
    /\ e_lookups = 2
    /\ GetImageDigest(e_env.src) = "sha256:a"
    /\ GetImageDigest(e_env.tgt) = "sha256:a"
    /\ max_retries > 0
    /\ e_env.copy[1] = CopyError
    /\ e_ret = "True"
    /\ e_copies = <<>>
    /\ success_count = 1

(***************************************************************************)
(* Claims about the manifest update step (SpecUpdate).                     *)
(***************************************************************************)
\* The winner the call uses for item k: the version_map entry of its
\* repository in the concurrent branch, the answer to its own unit in the
\* serial one
WinnerUsed(k) ==
    IF upd_concurrency
    THEN VersionMap(results, images_to_check[k].image_name)
    ELSE api[QueryOf(images_to_check[k])]

\* The items for which the call detects an update
Detected ==
    {k \in 1..Len(images_to_check) :
        HasNewVersion(ItemOf(loaded.images, images_to_check[k].img), WinnerUsed(k))}

\* C6: with dry_run, in either mode and whatever updates are detected, the
\* manifest file and the in-memory manifest (every entry's source) stay as
\* loaded, and the call returns the number of entries it found updatable.
C6_DryRunNonMutation ==
    dry_run =>
        /\ manifest_file = loaded
        /\ manifest = loaded
        /\ u_pc = "returned" => u_ret = Cardinality(Detected)

C6_Witness ==
    /\ dry_run
    /\ upd_concurrency
    /\ u_pc = "returned"
    /\ Len(images_to_check) = 2
    /\ u_ret = 2
    /\ manifest = loaded
    /\ manifest_file = loaded

(***************************************************************************)
(* Claims about the version resolver (SpecResolve).                        *)
(***************************************************************************)
\* The calls made so far that no request error cut short
GoodRuns == {run \in {r_first, r_second} : run.done /\ ~run.failed}

\* The triple the spec's rule (b) describes: strip a leading 'v', cut at the
\* first '-', split on '.', up to three integers, anything else 0
NumericTriple(tg) ==
    LET stripped == IF Len(tg) > 0 /\ tg[1] = "v" THEN Tail(tg) ELSE tg
        comps == SplitOn(SplitOn(stripped, "-")[1], ".")
    IN  [k \in 1..3 |-> IF k <= Len(comps) THEN IntOrZero(comps[k]) ELSE 0]

\* A RELEASE.<YYYY>-<MM>-<DD>... tag, the spec's rule (a)
IsReleaseTag(tg) == StartsWith(tg, ReleasePrefix) /\ HasDate(tg)

\* The sort key of rules (a) and (b) together
RuleKey(tg) == IF IsReleaseTag(tg) THEN DateOf(tg) ELSE NumericTriple(tg)

\* A tag that parses as a version: a RELEASE date, or a leading integer component
IsVersionTag(tg) ==
    \/ IsReleaseTag(tg)
    \/ LET stripped == IF Len(tg) > 0 /\ tg[1] = "v" THEN Tail(tg) ELSE tg
       IN  IsInt(SplitOn(SplitOn(stripped, "-")[1], ".")[1])

\* The tags of the repository that tag_pattern matches (at the start, as
\* re.match does) and exclude_pattern matches nowhere
ClaimedSurvivors ==
    {tg \in r_tags :
        /\ ReMatch(tag_pattern, tg)
        /\ ~(exclude_pattern # NoPattern /\ ReSearch(exclude_pattern, tg))}

\* C7: the resolver keeps exactly the tags tag_pattern matches and
\* exclude_pattern does not match; for the tags v1.0, v1.0-alpine, 1.0, v2.0
\* with '^v\d' and 'alpine' the list is [v1.0, v2.0] and the winner v2.0.
C7_FilterKeepsExactly ==
    \A run \in GoodRuns :
        /\ Range(run.versions) = ClaimedSurvivors
        /\ (/\ r_tags = {Tag_v1_0, Tag_v1_0_alpine, Tag_1_0, Tag_v2_0}
            /\ tag_pattern = Pattern_v_digit
            /\ exclude_pattern = Pattern_alpine) =>
               /\ run.versions = <<Tag_v1_0, Tag_v2_0>>
               /\ run.latest = Tag_v2_0

\* C8: 'latest' is never the winner when a tag that parses as a version
\* survives the filters.
C8_LatestNeverWins ==
    \A run \in GoodRuns :
        (\E tg \in Range(run.versions) : tg # Tag_latest /\ IsVersionTag(tg)) =>
            run.latest # Tag_latest

\* C9 as stated: the winner's (major, minor, patch) triple is maximal among
\* the survivors' triples.
C9_WinnerMaxNumericTriple ==
    \A run \in GoodRuns :
        \A tg \in Range(run.versions) :
            KeyLeq(NumericTriple(tg), NumericTriple(run.latest))

\* C9 as amended: the list holds every tag the filter keeps, ascending by the
\* sort key, compared number by number, which is the (year, month, day) of a
\* RELEASE date tag and the (major, minor, patch) triple of any other tag;
\* the winner is the last, so its key is maximal; and for the tags 1.2.3,
\* v1.10.0, 1.2, latest with '.*' the winner is v1.10.0.
C9_WinnerMaxSortKey ==
    \A run \in GoodRuns :
        /\ Range(run.versions) = r_tags \cap KeptTags[tag_pattern, exclude_pattern]
        /\ \A i, j \in 1..Len(run.versions) :
               i < j => KeyLeq(RuleKey(run.versions[i]), RuleKey(run.versions[j]))
        /\ \A tg \in Range(run.versions) : KeyLeq(RuleKey(tg), RuleKey(run.latest))
        /\ (/\ r_tags = {Tag_1_2_3, Tag_v1_10_0, Tag_1_2, Tag_latest}
            /\ tag_pattern = Pattern_any
            /\ exclude_pattern = NoPattern) => run.latest = Tag_v1_10_0

C9_Witness ==
    /\ r_first.done
    /\ ~r_first.failed
    /\ r_tags = {Tag_1_2_3, Tag_v1_10_0, Tag_1_2, Tag_latest}
    /\ tag_pattern = Pattern_any
    /\ exclude_pattern = NoPattern
    /\ r_first.versions = <<Tag_latest, Tag_1_2, Tag_1_2_3, Tag_v1_10_0>>
    /\ r_first.latest = Tag_v1_10_0

\* C10: two calls for the same tag names and patterns return the same list
\* and the same winner, whatever the listing, and tags with equal sort keys
\* stand in lexicographic order.
C10_WinnerDeterministic ==
    /\ (r_first \in GoodRuns /\ r_second \in GoodRuns) =>
           /\ r_first.versions = r_second.versions
           /\ r_first.latest = r_second.latest
    /\ \A run \in GoodRuns :
           \A i, j \in 1..Len(run.versions) :
               (i < j /\ KeyOf[run.versions[i]] = KeyOf[run.versions[j]]) =>
                   LexLess(run.versions[i], run.versions[j])

\* A tag of the form RELEASE.<YYYY>-<MM>-<DD>..., and the date it embeds
IsReleaseForm(tg) == StartsWith(tg, ReleasePrefix) /\ DateAt(tg, Len(ReleasePrefix) + 1)

ReleaseDate(tg) ==
    <<DigitsValue(SubSeq(tg, 9, 12)), DigitsValue(SubSeq(tg, 14, 15)),
      DigitsValue(SubSeq(tg, 17, 18))>>

\* C11: RELEASE.<YYYY>-<MM>-<DD>... tags are ordered by their (year, month,
\* day): in the returned list a RELEASE tag with an earlier date stands
\* before one with a later date, and among RELEASE.2024-01-01T00-00-00Z and
\* RELEASE.2025-10-15T17-29-55Z the winner is the 2025 tag.
C11_ReleaseOrderedByDate ==
    \A run \in GoodRuns :
        /\ \A i, j \in 1..Len(run.versions) :
               (/\ IsReleaseForm(run.versions[i])
                /\ IsReleaseForm(run.versions[j])
                /\ KeyLess(ReleaseDate(run.versions[i]), ReleaseDate(run.versions[j])))
               => i < j
        /\ Range(run.versions) = {Tag_RELEASE_2024, Tag_RELEASE_2025}
               => run.latest = Tag_RELEASE_2025

C11_Witness ==
    /\ r_first.done
    /\ ~r_first.failed
    /\ r_first.versions = <<Tag_RELEASE_2024, Tag_RELEASE_2024_12, Tag_RELEASE_2025>>
    /\ r_first.latest = Tag_RELEASE_2025
    /\ r_second.done
    /\ ~r_second.failed
    /\ r_second.versions = r_first.versions

(***************************************************************************)
(* Claims about the resolution step of update_versions (SpecUpdate).       *)
(***************************************************************************)
\* The answer of the tag source to item k's own unit
OwnWinner(k) == api[QueryOf(images_to_check[k])]

\* The items whose own answer is a new version
OwnUpdates ==
    {k \in 1..Len(images_to_check) : HasNewVersion(images_to_check[k], OwnWinner(k))}

\* The entries as a call leaves them that gives every entry its own answer
OwnImages ==
    [i \in 1..Len(loaded.images) |->
        IF ~dry_run /\ \E k \in OwnUpdates : images_to_check[k].img = i
        THEN LET k == CHOOSE n \in OwnUpdates : images_to_check[n].img = i
             IN  [loaded.images[i] EXCEPT !.source =
                     JoinSource(images_to_check[k].image_name, OwnWinner(k))]
        ELSE loaded.images[i]]

\* C12: a returned call of update_versions, serial or concurrent under any
\* completion order, has used for each entry the answer to the entry's own
\* unit, and leaves the manifest, the file and the count as the serial call
\* does.
C12_ConcurrentResolvesAsSerial ==
    u_pc = "returned" =>
        /\ \A k \in 1..Len(images_to_check) : WinnerUsed(k) = OwnWinner(k)
        /\ manifest.images = OwnImages
        /\ u_ret = Cardinality(OwnUpdates)
        /\ manifest_file = manifest

(***************************************************************************)
(* Further claims about the mirror scheduler (Spec).                       *)
(***************************************************************************)
\* How many records of the list are r
CountOf(r) == Cardinality({k \in 1..Len(mirrored_images) : mirrored_images[k] = r})

\* C13: when sync_from_manifest has returned on a fresh MirrorSync, the two
\* counters add up to the number of tasks, there are as many records as
\* successes, and every task is counted once in exactly one counter: the
\* successes in success_count, each with one record, all others in fail_count.
C13_CountersPartitionTasks ==
    m_pc = "returned" =>
        /\ success_count + fail_count = Len(sync_tasks)
        /\ Len(mirrored_images) = success_count
        /\ success_count = Cardinality(Planned("success"))
        /\ fail_count = Cardinality(Tasks \ Planned("success"))
        /\ \A r \in Range(mirrored_images) \cup RecordsOf(Planned("success")) :
               CountOf(r) = Cardinality({i \in Planned("success") :
                                SuccessRecord(sync_tasks[i], registry, owner) = r})

C13_Witness ==
    /\ m_pc = "returned"
    /\ use_concurrency
    /\ max_workers > 1
    /\ Len(sync_tasks) = MaxTasks
    /\ Planned("raised") # {}
    /\ Planned("failure") # {}
    /\ success_count = 1
    /\ fail_count = MaxTasks - 1

(***************************************************************************)
(* Further claims about the mirror executor (SpecExec).                    *)
(***************************************************************************)
\* The source address already lies in the namespace the targets are made in
InDestinationOrigin(source) ==
    /\ Len(source.path) > 2
    /\ source.path[1] = registry
    /\ source.path[2] = owner

\* The digest comparison found source and target equal
DigestsEqual ==
    /\ e_lookups = 2
    /\ ~Falsy(GetImageDigest(e_env.src))
    /\ GetImageDigest(e_env.src) = GetImageDigest(e_env.tgt)

\* The last copy invocation of the call returned exit code 0
CopyConfirmed == Len(e_copies) > 0 /\ e_copies[Len(e_copies)] = CopyOk

\* C14: a SyncRecord is appended only when the copy was confirmed (the copy
\* primitive returned exit code 0) or explicitly skipped because the target
\* is already current (equal digests, or a source that already lies in the
\* destination origin, recorded with target equal to source); a task whose
\* retries are exhausted counts one failure and appends no record.
C14_RecordOnlyWhenConfirmed ==
    e_pc = "returned" =>
        /\ mirrored_images # <<>> =>
              \/ CopyConfirmed
              \/ e_copies = <<>> /\ DigestsEqual
              \/ /\ e_copies = <<>>
                 /\ InDestinationOrigin(SourceImage(e_task))
                 /\ mirrored_images[1].target = mirrored_images[1].source
        /\ (/\ e_ret = "False"
            /\ Len(e_copies) > 0
            /\ CopyFailed(e_copies[Len(e_copies)])) =>
              /\ fail_count = 1
              /\ mirrored_images = <<>>

(***************************************************************************)
(* Claims about retries and backoff (SpecBackoff).                         *)
(***************************************************************************)
\* C15: whatever the digest lookups and the copy primitive do (non-zero
\* exit, timeout, exception of the invocation, exception of the backoff
\* sleep), sync_single_version returns a boolean: True when the copy was
\* confirmed or skipped for equal digests, False otherwise.
C15_AlwaysReturnsBoolean ==
    e_pc = "returned" =>
        /\ e_ret \in {"True", "False"}
        /\ e_ret = "True" <=> (CopyConfirmed \/ (e_copies = <<>> /\ DigestsEqual))
        /\ e_ret = "True" => success_count = 1 /\ fail_count = 0
        /\ e_ret = "False" => success_count = 0 /\ fail_count = 1

C15_Witness ==
    /\ e_pc = "returned"
    /\ e_ret = "False"
    /\ max_retries = MaxRetries
    /\ retry_delay < 0
    /\ e_env.src.kind = "timeout"
    /\ e_copies = <<CopyException>>
    /\ e_delays = <<>>

\* C17: for every retry_delay > 0 and every jitter, the delays slept within
\* one mirror_image call are strictly increasing.
C17_BackoffStrictlyIncreasing ==
    (e_pc = "returned" /\ retry_delay > 0) =>
        \A k \in 1..(Len(e_delays) - 1) : e_delays[k] < e_delays[k + 1]

(***************************************************************************)
(* Claims about the exit status of the sync command (SpecCmd).             *)
(***************************************************************************)
\* The process has ended, and the command was sync
SyncCommandEnded ==
    /\ c_pc \in {"exited", "interrupted"}
    /\ continue_on_error = "absent"

\* Every mirror task ran and returned True
EveryTaskSucceeded == \A i \in Tasks : t_pc[i] = "True"

\* C16, as stated: with the manifest in place and a task in it, the exit
\* status of the sync command is 0 when every mirror task succeeded and the
\* run was not interrupted, and 1 when a task failed or the user interrupted
\* the run.
C16_StatusReflectsTasks ==
    (SyncCommandEnded /\ manifest_exists /\ sync_tasks # <<>>) =>
        /\ exit_status \in {0, 1}
        /\ exit_status = 0 <=> (c_pc = "exited" /\ EveryTaskSucceeded)

\* C16, amended: the exit status of the sync command is 0 exactly when the
\* manifest exists, every mirror task succeeded, the run was not interrupted
\* and the image list was generated; it is 1 in every other case.
C16_StatusReflectsTasksAndReport ==
    SyncCommandEnded =>
        /\ exit_status \in {0, 1}
        /\ exit_status = 0 <=>
               /\ c_pc = "exited"
               /\ manifest_exists
               /\ EveryTaskSucceeded
               /\ report = "ok"

\* A sync command whose tasks all succeeded and whose image list was not
\* generated has ended
C16_Witness ==
    /\ SyncCommandEnded
    /\ c_pc = "exited"
    /\ Len(sync_tasks) = MaxCmdTasks
    /\ EveryTaskSucceeded
    /\ report = "raised"
    /\ exit_status = 1

(***************************************************************************)
(* Further claims about the version resolver (SpecResolve).                *)
(***************************************************************************)
\* C18: when a request for a page, the first or a later one, fails,
\* get_all_matching_versions returns the empty list and get_latest_version
\* returns None, whatever the pages before the failure held.
C18_FailsSoft ==
    \A run \in {r_first, r_second} :
        (run.done /\ run.error) => (run.versions = <<>> /\ run.latest = NoneTag)

\* A call that met a failed request answered None for a repository that
\* has a winner when the tag source answers every request
C18_Witness ==
    /\ r_first.done /\ r_first.error /\ r_first.latest = NoneTag
    /\ r_second.done /\ ~r_second.error /\ r_second.latest # NoneTag

(***************************************************************************)
(* Claims about the lock of MirrorSync (Spec).                             *)
(***************************************************************************)
\* Thread th is between entering and leaving a `with self._lock` block,
\* where the appends and the `+= 1` of the counters are
InMutation(th) ==
    (IF th = 0 THEN m_pc ELSE t_pc[th]) \in {"append", "load", "store", "release"}

Mutators == {th \in 0..Len(sync_tasks) : InMutation(th)}

\* C19: every mutation of success_count, fail_count and the record list is
\* performed by a thread that holds the lock, no two threads are inside such
\* a mutation at once, and whenever no thread holds the lock the number of
\* records equals success_count.
C19_MutationsUnderLock ==
    /\ Mutators \subseteq lock
    /\ Cardinality(Mutators) <= 1
    /\ lock = {} => Len(mirrored_images) = success_count

\* A worker has appended its record and not yet counted it, while another
\* worker waits for the lock
C19_Witness ==
    \E i, j \in Tasks :
        /\ t_pc[i] \in {"load", "store"}
        /\ plan[i] = "success"
        /\ lock = {i}
        /\ t_pc[j] = "acquire"
        /\ Len(mirrored_images) = success_count + 1

(***************************************************************************)
(* Claims about the order of the batch results (SpecUpdate).               *)
(***************************************************************************)
\* The result lists the same completed units give in every other order of
\* completion
Reorderings(res) ==
    {[i \in 1..Len(res) |-> res[p[i]]] : p \in Perms(1..Len(res))}

\* C20: once the batch has returned, the winner the concurrent branch uses
\* for each item is the one it would use had the same units, with the same
\* answers, completed in any other order.
C20_OrderIndependent ==
    (upd_concurrency /\ u_pc \in {"apply", "returned"}) =>
        \A k \in 1..Len(images_to_check) :
            \A other \in Reorderings(results) :
                VersionMap(other, images_to_check[k].image_name) = WinnerUsed(k)

(***************************************************************************)
(* Claims about the persistence of the manifest (SpecUpdate).              *)
(***************************************************************************)
\* Every unit of the call has been resolved and every item handled
ResolutionComplete == u_pc = "returned" /\ pending = {} /\ u_idx > Len(images_to_check)

\* C21: update_versions saves the manifest at most once per call and only
\* after every checked entry has been resolved; once the call has returned,
\* it has saved exactly when it is not a dry run and the source of at least
\* one entry was changed, and with no change the file is as it was loaded.
C21_PersistsOnceAfterResolution ==
    /\ saves <= 1
    /\ (saves > 0 \/ manifest_file # loaded) => ResolutionComplete
    /\ u_pc = "returned" =>
           /\ saves = 1 <=> (~dry_run /\ manifest.images # loaded.images)
           /\ manifest.images = loaded.images => manifest_file = loaded
           /\ saves = 1 => manifest_file = manifest

\* A call on two checked entries changed one of them and saved once
C21_Witness ==
    /\ u_pc = "returned"
    /\ Len(images_to_check) = 2
    /\ saves = 1
    /\ u_ret = 1
    /\ manifest_file.images # loaded.images

(***************************************************************************)
(* Claims about which entries update_versions rewrites (SpecUpdate).       *)
(***************************************************************************)
\* The tag entry i of a manifest is pinned to
PinnedTag(m, i) == RSplit(m.images[i].source).current_version

\* The entries whose source is not what was loaded
Rewritten == {i \in 1..Len(loaded.images) : manifest.images[i].source # loaded.images[i].source}

\* C22: an entry's source is rewritten only to a tag that is strictly newer,
\* under the resolver's version ordering, than the tag it was pinned to;
\* never to a tag that orders below or equal to it.
C22_OnlyStrictlyNewer ==
    \A i \in Rewritten :
        KeyLess(VersionKey(PinnedTag(loaded, i)), VersionKey(PinnedTag(manifest, i)))

\* The items whose own unit the resolver answered with no winner
NoMatch == {k \in 1..Len(images_to_check) : OwnWinner(k) = NoneTag}

\* C23: when the resolver has no winner for an entry, a returned call of
\* update_versions has left the source of that entry as loaded and has not
\* counted it as updated, and every other item has been handled.
C23_NoMatchLeavesEntry ==
    u_pc = "returned" =>
        /\ u_idx > Len(images_to_check)
        /\ \A k \in NoMatch :
               /\ manifest.images[images_to_check[k].img].source
                      = loaded.images[images_to_check[k].img].source
               /\ k \notin Detected

(***************************************************************************)
(* Claims about the origin shortcut and the digest lookups (SpecExec) and  *)
(* about copy timeouts (SpecBackoff).                                      *)
(***************************************************************************)
\* C24: when the source address already lies in the destination origin (and
\* no print raises), sync_single_version makes no digest lookup and no copy
\* invocation, appends one SyncRecord whose target equals its source, raises
\* success_count by one and returns True.
C24_OriginShortcut ==
    (/\ e_pc = "returned"
     /\ e_env.raise = "none"
     /\ InDestinationOrigin(SourceImage(e_task))) =>
        /\ e_lookups = 0
        /\ e_copies = <<>>
        /\ Len(mirrored_images) = 1
        /\ mirrored_images[1].target = mirrored_images[1].source
        /\ mirrored_images[1].source = SourceImage(e_task)
        /\ success_count = 1
        /\ fail_count = 0
        /\ e_ret = "True"

\* A digest lookup that fails: a non-zero exit, an empty output, a timeout
\* or an exception
FailedLookup(o) == o.kind # "exit" \/ o.rc # 0 \/ o.out = ""

\* The call went into mirror_image and met a failed digest lookup, of the
\* source or, the source's having succeeded, of the target
LookupFailed ==
    /\ e_pc = "returned"
    /\ e_env.raise = "none"
    /\ ~IsGhcrSource(SourceImage(e_task))
    /\ FailedLookup(e_env.src) \/ FailedLookup(e_env.tgt)

\* C25, as stated: when a digest lookup fails, needs_sync reports that a
\* copy is needed, mirror_image invokes the copy primitive at least once, and
\* the call does not end in a skip.
C25_FailedLookupCopies ==
    LookupFailed =>
        /\ NeedsSync(e_env).need
        /\ Len(e_copies) >= 1
        /\ ~(e_ret = "True" /\ e_copies = <<>>)

\* C25, amended: when a digest lookup fails, needs_sync reports that a copy
\* is needed and the call does not end in a skip; mirror_image invokes the
\* copy primitive at least once when max_retries is at least 1, and with
\* max_retries 0 it invokes nothing and the task fails.
C25_FailedLookupCopiesWithinBudget ==
    LookupFailed =>
        /\ NeedsSync(e_env).need
        /\ max_retries >= 1 => Len(e_copies) >= 1
        /\ max_retries = 0 => (e_copies = <<>> /\ e_ret = "False" /\ fail_count = 1)
        /\ ~(e_ret = "True" /\ e_copies = <<>>)
        /\ e_ret = "True" => e_copies[Len(e_copies)] = CopyOk

\* The lookup of the target failed with an empty output after the source's
\* succeeded, and the copy went through on its first invocation
C25_Witness ==
    /\ LookupFailed
    /\ ~FailedLookup(e_env.src)
    /\ e_env.tgt = [kind |-> "exit", rc |-> 0, out |-> ""]
    /\ e_lookups = 2
    /\ e_copies = <<CopyOk>>
    /\ e_ret = "True"

\* The retry after the k-th invocation was made: the primitive was invoked
\* again, or the retry ended in its own sleep (time.sleep raises on a
\* negative delay) and used up its attempt there
RetriedAfter(k) ==
    \/ Len(e_copies) > k
    \/ BackoffDelay(retry_delay, k, e_jitter) < 0

C27_PoolsBounded ==
    /\ Cardinality(Executing) <= max_workers
    /\ Cardinality(resolving) <= api_max_workers

\* The batch has resolved more units than its pool has workers, and now the
\* mirror pool is full while a submitted task waits for a worker
C27_Witness ==
    /\ upd_concurrency
    /\ Len(results) > api_max_workers
    /\ use_concurrency
    /\ Len(sync_tasks) > max_workers
    /\ Cardinality(Executing) = max_workers
    /\ \E i \in Tasks : t_pc[i] = "queued"

(***************************************************************************)
(* Claims about the derivation of the tasks (SpecDerive).                  *)
(***************************************************************************)
\* The versions of the tasks derived from entry i, in the order of the list
VersionsFrom(i) ==
    LET mine == SelectSeq([k \in 1..Len(d_tasks) |-> k], LAMBDA k : d_from[k] = i)
    IN  [j \in 1..Len(mine) |-> d_tasks[mine[j]].version]

\* The tag an entry's source is pinned to: what follows the last ':' unless
\* that is part of the path, and 'latest' for a source without a tag
PinnedTagOf(source) ==
    LET last == source[Len(source)]
    IN  IF Len(source) >= 2 /\ \A c \in 1..Len(last) : last[c] # "/"
        THEN last ELSE Tag_latest

\* Whether a sequence holds no element twice
NoRepeat(seq) == \A a, b \in 1..Len(seq) : seq[a] = seq[b] => a = b

\* The tags of the tag source that the patterns of an entry keep
MatchingTags(img) == d_tags \cap KeptTags[img.tag_pattern, img.exclude_pattern]

\* C28: a disabled entry yields no task; an enabled entry without
\* sync_all_matching yields one task, for its pinned tag or 'latest'; an
\* enabled entry with sync_all_matching yields one task per resolved
\* matching tag, none repeated, and none when nothing matches
C28_TaskDerivation ==
    \A i \in 1..Len(d_resolved) :
        LET img == d_images[i]
            mine == VersionsFrom(i)
        IN  /\ ~img.enabled => mine = <<>>
            /\ (img.enabled /\ ~img.sync_all_matching) =>
                   mine = <<PinnedTagOf(img.source)>>
            /\ (img.enabled /\ img.sync_all_matching) =>
                   /\ NoRepeat(mine)
                   /\ mine = d_resolved[i].versions
                   /\ ~d_resolved[i].error => Range(mine) = MatchingTags(img)

(***************************************************************************)
(* Claims about the report of the sync command (SpecCmd).                  *)
(***************************************************************************)
\* C29: every run of the sync command that loaded the manifest and whose
\* sync_from_manifest returned has produced the report, whatever the
\* outcomes of the mirror tasks (a failure while the report is written
\* aside)
C29_ReportAlwaysProduced ==
    (c_pc = "exited" /\ m_pc = "returned" /\ report # "raised") => report = "ok"

(***************************************************************************)
(* Claims about the writers of the manifest (SpecUpdate).                  *)
(***************************************************************************)
\* C30: no step writes the manifest while a resolution is running or
\* waiting in the pool; in concurrent mode every write comes after the batch
\* has handed over the result of every unit
C30_WritesAfterJoin ==
    [][manifest' # manifest =>
          /\ resolving = {}
          /\ pending = {}
          /\ u_pc \in {"apply", "serial"}
          /\ upd_concurrency => Len(results) = Len(images_to_check)]_vars

\* A concurrent call over two units has rewritten an entry
C30_Witness ==
    /\ upd_concurrency
    /\ ~dry_run
    /\ Len(images_to_check) >= 2
    /\ Len(results) = Len(images_to_check)
    /\ u_pc = "apply"
    /\ manifest.images # loaded.images

(***************************************************************************)
(* Claims about tags that parse under neither rule (SpecResolve).          *)
(***************************************************************************)
\* The dot-separated components version_key reads: after a leading 'v' and
\* before the first '-'
KeyComponents(tg) ==
    LET stripped == IF Len(tg) > 0 /\ tg[1] = "v" THEN Tail(tg) ELSE tg
    IN  SplitOn(SplitOn(stripped, "-")[1], ".")

\* A tag that parses as a numeric version: no RELEASE date, and a leading
\* integer component
IsNumericTag(tg) == ~IsReleaseTag(tg) /\ IsInt(KeyComponents(tg)[1])

\* A tag that parses under neither rule: no RELEASE date and no integer
\* among its components
IsUnparsedTag(tg) ==
    /\ ~IsReleaseTag(tg)
    /\ \A k \in 1..Len(KeyComponents(tg)) : ~IsInt(KeyComponents(tg)[k])

\* C31: in the ascending list a tag that parses under neither rule stands
\* before every numerically parsed tag, so it is not the winner when a
\* numerically parsed tag survives the filters
C31_UnparsedRanksBelowNumeric ==
    \A run \in GoodRuns :
        /\ \A i, j \in 1..Len(run.versions) :
               (IsUnparsedTag(run.versions[i]) /\ IsNumericTag(run.versions[j]))
                   => i < j
        /\ (\E tg \in Range(run.versions) : IsNumericTag(tg))
               => ~IsUnparsedTag(run.latest)

CopyBudgetKept ==
    \A t \in TaskPool : \A env \in Envs(MaxRetries) :
        Len(SyncBody(t, DefaultRegistry, DefaultOwner, env, MaxRetries,
                     DefaultRetryDelay, [k \in 1..MaxRetries |-> 0]).copies)
            <= MaxRetries

\* A tag source that announces a next page for ever is asked for max_pages
\* pages: of one tag per page, max_pages tags are kept
PageBudgetKept ==
    LET feed == [p \in 1..(max_pages + 2) |-> OkPage(<<Tag_1_0>>, TRUE)]
    IN  Len(FetchLoop(feed, 1, Pattern_any, NoPattern, <<>>).matching) = max_pages

\* The run has ended: the batch, if one was started, has handed over every
\* unit, and sync_from_manifest, if it was called, is over, every task
\* finished when it returned
RunEnded ==
    /\ c_pc = "exited"
    /\ u_pc # "idle" => (u_pc = "returned" /\ pending = {} /\ resolving = {})
    /\ m_pc \in {"waiting", "returned", "propagated"}
    /\ m_pc = "returned" => \A i \in Tasks : t_pc[i] \in Finished

\* C33: every call terminates: a mirror task after at most max_retries copy
\* invocations, the page loop after at most max_pages requests, the batch
\* and sync_from_manifest with every submitted unit completed
C33_EveryCallReturns == <>(RunEnded /\ CopyBudgetKept /\ PageBudgetKept)

\* A run with both pools in use has ended, more mirror tasks than workers
C33_Witness ==
    /\ c_pc = "exited"
    /\ upd_concurrency
    /\ Len(results) = MaxEntries
    /\ use_concurrency
    /\ Len(sync_tasks) > max_workers
    /\ m_pc = "returned"
    /\ \A i \in Tasks : t_pc[i] \in Finished

(***************************************************************************)
(* Claims about successes without evidence (SpecExec).                     *)
(***************************************************************************)
\* The source address lies under the registry the MirrorSync was built with
UnderRegistry(source) == Len(source.path) > 1 /\ source.path[1] = registry

\* C34: a task whose source does not lie under the configured registry is
\* recorded as a success only after a copy invocation that returned exit
\* code 0 or a digest comparison that found source and target equal
C34_ForeignSuccessHasEvidence ==
    (/\ e_pc = "returned"
     /\ ~UnderRegistry(SourceImage(e_task))
     /\ (mirrored_images # <<>> \/ success_count > 0)) =>
        \/ CopyConfirmed
        \/ e_copies = <<>> /\ DigestsEqual

(***************************************************************************)
(* Claims about the two readings of a source (SpecDerive).                 *)
(***************************************************************************)
\* C35: the task derived from an entry names the repository that
\* update_versions reads from the entry's source, and, for an entry that is
\* not expanded, the version update_versions reads from it
C35_SameReadingOfSource ==
    \A k \in 1..Len(d_tasks) :
        LET img == d_images[d_from[k]]
            parts == RSplit(img.source)
        IN  /\ <<d_tasks[k].image_name>> = parts.image_name
            /\ ~img.sync_all_matching => d_tasks[k].version = parts.current_version

(***************************************************************************)
(* Claims about the order of the two steps of the run (SpecRun).           *)
(***************************************************************************)
\* What the update step left in the manifest file: the manifest as changed
\* and stamped when it saved, the file as it was loaded otherwise
Persisted == IF saves > 0 THEN manifest ELSE loaded

\* C36: sync_from_manifest is called only after update_versions has
\* returned, on the manifest the update step left in the file; and when
\* cmd_update returns 1 without --continue-on-error, no task is started and
\* the run returns 1
C36_MirrorAfterUpdate ==
    /\ m_pc # "waiting" =>
          /\ u_pc = "returned"
          /\ manifest_file = Persisted
          /\ d_images = Persisted.images
    /\ (~manifest_exists /\ continue_on_error = "False") =>
          /\ m_pc = "waiting"
          /\ \A i \in Tasks : t_pc[i] = "new"
          /\ c_pc \in {"run", "exited"}
          /\ c_pc = "exited" => exit_status = 1

\* The update step rewrote an entry and saved; the mirror step, on the
\* rewritten manifest, has finished a task
C36_Witness ==
    /\ saves = 1
    /\ manifest_file.images # RunManifest.images
    /\ d_images = manifest_file.images
    /\ m_pc \notin {"waiting", "start"}
    /\ \E i \in Tasks : t_pc[i] \in Finished

(***************************************************************************)
(* Claims about the two filters (SpecResolve).                             *)
(***************************************************************************)
\* C37: the tags get_all_matching_versions returns for a repository and a
\* pair of patterns are the tags filter_tags_by_pattern keeps of the same
\* tags under the same patterns
C37_FiltersAgree ==
    \A run \in GoodRuns :
        Range(run.versions) =
            {tag_name \in r_tags : ReportKeeps(tag_name, tag_pattern, exclude_pattern)}

(***************************************************************************)
(* Claims about the order of the report (SpecReport).                      *)
(***************************************************************************)
IsLatestTag(tag) == tag.name = Tag_latest

HasNumericVersion(tag) == ReportVersionKey(tag).class = 1

\* The tags of a list with a numeric version
NumericTags(tags) == {i \in 1..Len(tags) : HasNumericVersion(tags[i])}

\* C38: once the filtered tags are sorted, if one of them has a numeric
\* version the first of the list has one, none has a greater triple, and it
\* is the one reported as latest_version; and no 'latest' tag stands before
\* a tag of another name
C38_NewestFirst ==
    g_pc \in {"sorted", "done"} =>
        /\ NumericTags(tags_sorted) # {} =>
              /\ 1 \in NumericTags(tags_sorted)
              /\ \A i \in NumericTags(tags_sorted) :
                     ~KeyLess(ReportVersionKey(tags_sorted[1]).nums,
                              ReportVersionKey(tags_sorted[i]).nums)
              /\ g_pc = "done" => g_latest = tags_sorted[1].name
        /\ \A i, j \in 1..Len(tags_sorted) :
              IsLatestTag(tags_sorted[i]) /\ ~IsLatestTag(tags_sorted[j]) => j < i

====
